---------------------------- MODULE Spec2Model ----------------------------
(***************************************************************************)
(* A model of fc2-live-dl (src/fc2_live_dl.py) in four parts, and the      *)
(* second and third of them run together:                                  *)
(*  - the ordered fragment pipeline of HLSDownloader (playlist poller,     *)
(*    fetch workers, the two bounded priority queues, the ordered reader); *)
(*  - FC2LiveDL.download() from its first request to its return;           *)
(*  - FC2WebSocket: the receive loop, the heartbeat, the response map and  *)
(*    get_hls_information;                                                 *)
(*  - FC2LiveDL._get_hls_url: the choice of the playlist for a quality and *)
(*    a latency.                                                           *)
(*                                                                         *)
(* The program is single-threaded asyncio: a task runs without             *)
(* interruption from one suspension point (an await that really waits) to  *)
(* the next, so every action below is one such run of one task.            *)
(***************************************************************************)
EXTENDS Integers, Sequences, FiniteSets, TLC

(***************************************************************************)
(* Bounds of the model.                                                    *)
(***************************************************************************)
\* --threads is drawn from 1..MaxThreads
MaxThreads == 2
\* number of fragment URLs the server publishes in one session
MaxFrags == 6
\* capacity of each PriorityQueue: the program's queues hold 100 entries
\* (lines 99-100); the model keeps the same blocking rule at a capacity
\* small enough to fill the queues
QueueMaxSize == 2
\* number of fragment URLs one playlist response advertises (sliding window)
WindowSize == 2
\* number of fragment GETs in one session that are answered by a status > 299
MaxBadStatus == 6
\* number of fragment GETs in one session that end in a transport error
MaxTransportErrors == 1
\* only the fragments up to this sequence are ever answered by a status > 299
MaxBadSeq == 0
\* number of heartbeat intervals the clock of a WebSocket session runs through
MaxHeartbeats == 2
\* message ids a WebSocket session can use
MaxIds == 8
\* seconds by which the clock of a WebSocket session advances in one step
ClockStep == 15
\* entries the 'playlists' list of an HLS information payload can hold
MaxEntries == 2
\* entries each of its two latency lists can hold
MaxLatencyEntries == 1

(***************************************************************************)
(* Program constants.                                                      *)
(***************************************************************************)
\* _download_worker: `if tries < 5`
MaxTries == 5
\* _fill_queue: `if time.time() - last_fragment_timestamp > 30`
IdleTimeout == 30
\* FC2WebSocket.heartbeat_interval
heartbeat_interval == 30
\* get_hls_information: max_tries = 5
max_tries == 5

\* b'' and the body of a fragment response, as sequences of bytes
EmptyBytes == << >>
Bodies == { <<1>> }
\* last_fragment = None
None == 0
\* FC2LiveStream._meta = None: no metadata fetched yet
NoMeta == -1

VARIABLES
    \* ---- HLSDownloader -------------------------------------------------
    threads,          \* self._threads
    published,        \* server: number of fragment URLs published so far
    frag_urls,        \* self._frag_urls: entries [seq, url, tries], by seq
    frag_data,        \* self._frag_data: entries [seq, frag], by seq
    download_task,    \* self._download_task: "none", "running", "cancelling", "done"
    fillPc,           \* _fill_queue: "init", "poll", "put", "done"
    fillExit,         \* why the poller ended: "none", "finished", "error", "timeout", "cancelled"
    fillPending,      \* _fill_queue: the rest of frags[new_idx:], head first
    last_fragment,    \* _fill_queue local
    frag_idx,         \* _fill_queue local
    elapsed,          \* time.time() - last_fragment_timestamp, 0 or more than IdleTimeout
    wPc,              \* per worker: "init", "get", "fetch", "put_retry", "put_data", "cancelled"
    wItem,            \* per worker: the entry taken from frag_urls
    wFrag,            \* per worker: the payload it is inserting into frag_data
    index,            \* read(): the expected sequence
    readPc,           \* read()/_read() inside _download_stream: "init", "get", "sleep", "cancelling", "done"
    out,              \* the stream file: the payloads written, in order, each with its sequence
    \* ---- history (not program state) -----------------------------------
    nGet,             \* per sequence: GETs issued
    nBad,             \* per sequence: GETs answered with status > 299
    nDataPut,         \* per sequence: inserts into frag_data by a worker
    nErr,             \* per sequence number: transport errors so far
    enqueued,         \* the entries the poller has put on frag_urls, in order
    \* ---- FC2LiveDL.download -------------------------------------------
    write_chat,       \* params['write_chat']
    remux,            \* params['remux']
    wait_for_live,    \* params['wait_for_live']
    write_info_json,  \* params['write_info_json']
    extract_audio,    \* params['extract_audio']
    keep_intermediates, \* params['keep_intermediates']
    is_publish,       \* meta['channel_data']['is_publish'] as last fetched, NoMeta before
    wsOpened,         \* FC2WebSocket.__aenter__ has connected
    muxedExists,      \* os.path.isfile(fname_muxed)
    events,           \* history: what download() has done to the outside, in order
    dlPc,             \* download(): "start", "wait_online", "ws_url", "ws_connect",
                      \* "hls", "create", "wait", "close", "await", "remux",
                      \* "audio", "done", "raised"
    dlExc,            \* the exception download() is leaving with, "none" if none
    tState,           \* T1, T2, T3: "none", "running", "cancel_req", "unwinding", "done", "failed", "cancelled"
    mlState,          \* ws._task (_main_loop): "none", "running", "cancel_req", "failed", "cancelled"
    mlExc,            \* the exception _main_loop ended with
    mustRun,          \* tasks whose wake-up was scheduled before download() was suspended
    finIdx,           \* finally loop (line 688): position in tasks
    fileExists,       \* os.path.isfile(fname_stream)
    wsClosed,         \* self._ws.close() was called
    remuxed,          \* _remux_stream ran
    logged,           \* error lines download() logged
    interrupted,      \* download() was cancelled while in asyncio.wait
    exitedSet,        \* _exited of line 667
    cancelAsked,      \* history: tasks download() called cancel() on
    \* ---- FC2WebSocket --------------------------------------------------
    msg_id,           \* self._msg_id
    socket,           \* the frames written to the WebSocket, in order: [name, id, at];
                      \* at is history: when a heartbeat was sent, 0 for other frames
    loopPc,           \* _main_loop: "recv", "heartbeat" (in send_json), "failed"
    last_heartbeat,   \* self._last_heartbeat
    now,              \* time.time()
    msg_responses,    \* self._msg_responses._map: [id, playlists]
    popPc,            \* per id, the task of AsyncMap.pop(id): "none", "waiting", "full", "empty", "cancelled"
    unanswered,       \* server: ids of frames it has not answered
    hlsPc,            \* get_hls_information: "idle", "send", "wait", "backoff", "returned", "EmptyPlaylist", "raised"
    tries,            \* get_hls_information local
    wait_id,          \* _send_message_and_wait local msg_id
    timer,            \* the 'timeout' task: "none", "running", "done"
    loopExc,          \* what _main_loop ended with: [kind, code], NoExc before
    hlsExc,           \* the exception get_hls_information was left by, "none" if none
    wait_ret,         \* what _send_message_and_wait returned last: "None", "full",
                      \* "empty" (a response with or without 'playlists'), "none" before
    recv_since,       \* when _main_loop began to wait in receive_json
    \* ---- history (not program state) -----------------------------------
    nReq,             \* get_hls_information frames emitted
    nFailed,          \* attempts that timed out or got no 'playlists'
    backoffs,         \* the delays get_hls_information slept, in order
    \* ---- FC2LiveDL._get_hls_url ----------------------------------------
    quality,          \* params['quality']
    latency,          \* params['latency']
    hls_info,         \* the HLS information payload: [keys, lists]
    selPc,            \* _get_hls_url: "merge", "sort", "pick", "done"
    p_merged,         \* p_merged
    p_sorted,         \* p_sorted
    hls_url,          \* the URL returned, NoUrl before
    selExc            \* the exception _get_hls_url was left by, "none" if none

hlsVars == << threads, published, frag_urls, frag_data, download_task, fillPc,
              fillExit, fillPending, last_fragment, frag_idx, elapsed, wPc,
              wItem, wFrag, index, readPc, out, nGet, nBad, nDataPut, nErr,
              enqueued >>

\* the options of a session other than write_chat and remux
dlParams == << wait_for_live, write_info_json, extract_audio, keep_intermediates >>

\* what only the steps before the recording and after it change
dlSession == << is_publish, wsOpened, muxedExists >>

dlVars == << write_chat, remux, dlParams, dlSession, events, dlPc, dlExc, tState,
             mlState, mlExc, mustRun, finIdx, fileExists, wsClosed, remuxed,
             logged, interrupted, exitedSet, cancelAsked >>

wsVars == << msg_id, socket, loopPc, last_heartbeat, now, msg_responses, popPc,
             unanswered, hlsPc, tries, wait_id, timer, loopExc, hlsExc,
             wait_ret, recv_since, nReq, nFailed, backoffs >>

selVars == << quality, latency, hls_info, selPc, p_merged, p_sorted, hls_url, selExc >>

vars == << hlsVars, dlVars, wsVars, selVars >>

\* the state of the other parts of the program
notHLS == << dlVars, wsVars, selVars >>
notDL == << hlsVars, wsVars, selVars >>
notWS == << hlsVars, dlVars, selVars >>
notSel == << hlsVars, dlVars, wsVars >>

Workers == 1 .. threads
Seqs == 0 .. (MaxFrags - 1)
NoItem == [seq |-> -1, url |-> None, tries |-> 0]

(***************************************************************************)
(* asyncio.PriorityQueue(maxsize): put waits while the queue is full, get  *)
(* waits while it is empty and returns the smallest entry.                 *)
(***************************************************************************)
\* a queue built without maxsize: put never waits
QueueNeverFull(q) == FALSE
QueueFull(q) == Len(q) >= QueueMaxSize

\* heappush: the entry goes after the entries that do not compare greater
QueuePut(q, e) ==
    LET k == Cardinality({ j \in 1 .. Len(q) : q[j].seq <= e.seq })
    IN  SubSeq(q, 1, k) \o << e >> \o SubSeq(q, k + 1, Len(q))

\* the server's playlist: the last WindowSize published URLs, oldest first
Playlist ==
    LET lo == IF published > WindowSize THEN published - WindowSize + 1 ELSE 1
    IN  [ j \in 1 .. (published - lo + 1) |-> lo + j - 1 ]

\* a poller that takes every entry of every playlist as new
NewIdxZero(frags, last) == 0
\* 1 + frags.index(last_fragment), 0 when index() raises
NewIdx(frags, last) ==
    IF \E j \in 1 .. Len(frags) : frags[j] = last
    THEN 1 + ((CHOOSE j \in 1 .. Len(frags) :
                   /\ frags[j] = last
                   /\ \A h \in 1 .. (j - 1) : frags[h] # last) - 1)
    ELSE 0

\* frags[new_idx:]
FragsFrom(frags, new_idx) == SubSeq(frags, new_idx + 1, Len(frags))

(***************************************************************************)
(* _fill_queue, lines 140-143: the for loop from its current element until *)
(* a put finds frag_urls full (the poller is then suspended in that put)   *)
(* or the list is exhausted.                                               *)
(***************************************************************************)
RECURSIVE FillLoop(_, _, _, _)
FillLoop(pending, q, idx, last) ==
    IF pending = << >>
    THEN [pending |-> pending, q |-> q, idx |-> idx, last |-> last]
    ELSE IF QueueFull(q)
         THEN [pending |-> pending, q |-> q, idx |-> idx, last |-> Head(pending)]
         ELSE FillLoop(Tail(pending),
                       QueuePut(q, [seq |-> idx, url |-> Head(pending), tries |-> 0]),
                       idx + 1,
                       Head(pending))

\* a retry that does not count the attempt
RetriedUncounted(item) == item
\* line 164: the entry put back, (i, (url, tries + 1))
Retried(item) == [item EXCEPT !.tries = @ + 1]

\* a retry rule that stops one attempt early
MayRetryOneLess(n) == n < MaxTries - 1
\* line 162
MayRetry(n) == n < MaxTries

\* a reader that yields whatever entry it takes out
MatchesAny(p, expected) == TRUE
\* line 199
Matches(p, expected) == p = expected

RECURSIVE SumUpTo(_, _)
SumUpTo(f, n) == IF n < 0 THEN 0 ELSE f[n] + SumUpTo(f, n - 1)
\* how many fragment GETs were answered with a status > 299 so far
BadTotal == SumUpTo(nBad, MaxFrags - 1)
\* how many fragment GETs raised so far
ErrTotal == SumUpTo(nErr, MaxFrags - 1)

\* an except clause that puts the entry back on the URL queue
RequeuedOnError(q, item) == QueuePut(q, item)
\* lines 170-171: the except clause only logs; the entry is in no queue
DroppedOnError(q, item) == q

(***************************************************************************)
(* _download, lines 185-194: _fill_queue has returned (or the task was     *)
(* cancelled); every worker task is cancelled and the task ends.  A        *)
(* cancelled worker is suspended in an await and CancelledError, which     *)
(* `except Exception` does not catch, ends it there.                       *)
(***************************************************************************)
\* a download task that ends without cancelling its workers
LeaveWorkers == wPc
\* lines 188-189, 193-194: task.cancel() for every worker task
CancelWorkers == [w \in Workers |-> "cancelled"]

EndDownload(reason) ==
    /\ fillPc' = "done"
    /\ fillExit' = reason
    /\ fillPending' = << >>
    /\ download_task' = "done"
    /\ wPc' = CancelWorkers
    /\ wItem' = [w \in Workers |-> NoItem]
    /\ wFrag' = [w \in Workers |-> EmptyBytes]

\* lines 140-152 once the for loop has run as far as r
AfterFill(r, el) ==
    /\ frag_urls' = r.q
    /\ enqueued' = enqueued \o SelectSeq(r.q, LAMBDA e : e.seq >= frag_idx)
    /\ frag_idx' = r.idx
    /\ last_fragment' = r.last
    /\ elapsed' = el
    /\ IF r.pending # << >>
       THEN /\ fillPc' = "put"
            /\ fillPending' = r.pending
            /\ UNCHANGED << fillExit, download_task, wPc, wItem, wFrag >>
       ELSE IF el > IdleTimeout
            THEN EndDownload("timeout")
            ELSE /\ fillPc' = "poll"
                 /\ fillPending' = << >>
                 /\ UNCHANGED << fillExit, download_task, wPc, wItem, wFrag >>

\* a worker waits in `await self._frag_urls.get()` (line 156) and an entry
\* is there: the put has scheduled the worker's wake-up.  The poller puts
\* and then sleeps a second (line 149) before its next GET, so the worker
\* has run by the time that GET is answered
GetterReady == frag_urls # << >> /\ \E w \in Workers : wPc[w] = "get"

\* the server publishes the next fragment URL
ServerPublish ==
    /\ download_task \in {"none", "running"}
    /\ published < MaxFrags
    /\ published' = published + 1
    /\ UNCHANGED << threads, enqueued, frag_urls, frag_data, download_task, fillPc, fillExit,
                    fillPending, last_fragment, frag_idx, elapsed, wPc, wItem,
                    wFrag, index, readPc, out, nGet, nBad, nDataPut, nErr >>
    /\ UNCHANGED notHLS

\* more than IdleTimeout seconds go by since last_fragment_timestamp
TimePasses ==
    /\ download_task = "running"
    /\ elapsed = 0
    /\ elapsed' = IdleTimeout + 1
    /\ UNCHANGED << threads, enqueued, published, frag_urls, frag_data, download_task, fillPc,
                    fillExit, fillPending, last_fragment, frag_idx, wPc, wItem,
                    wFrag, index, readPc, out, nGet, nBad, nDataPut, nErr >>
    /\ UNCHANGED notHLS

\* _fill_queue, lines 126-149: the playlist GET answers with a playlist
FillPoll ==
    /\ download_task = "running"
    /\ fillPc = "poll"
    /\ ~GetterReady
    /\ LET frags == Playlist
           new_idx == NewIdx(frags, last_fragment)
           n_new == Len(frags) - new_idx
           el == IF n_new > 0 THEN 0 ELSE elapsed
       IN  AfterFill(FillLoop(FragsFrom(frags, new_idx), frag_urls, frag_idx,
                              last_fragment), el)
    /\ UNCHANGED << threads, published, frag_data, index, readPc, out,
                    nGet, nBad, nDataPut, nErr >>
    /\ UNCHANGED notHLS

\* _get_fragment_urls, line 116: status 403 raises StreamFinished, which
\* `except Exception` in _fill_queue (line 150) turns into a return
FillPollFinished ==
    /\ download_task = "running"
    /\ fillPc = "poll"
    /\ ~GetterReady
    /\ EndDownload("finished")
    /\ UNCHANGED << threads, enqueued, published, frag_urls, frag_data, last_fragment,
                    frag_idx, elapsed, index, readPc, out, nGet, nBad, nDataPut, nErr >>
    /\ UNCHANGED notHLS

\* _fill_queue, lines 150-152: the playlist GET raises
FillPollError ==
    /\ download_task = "running"
    /\ fillPc = "poll"
    /\ ~GetterReady
    /\ EndDownload("error")
    /\ UNCHANGED << threads, enqueued, published, frag_urls, frag_data, last_fragment,
                    frag_idx, elapsed, index, readPc, out, nGet, nBad, nDataPut, nErr >>
    /\ UNCHANGED notHLS

\* _fill_queue, line 142: the suspended put goes on once frag_urls has room
FillPutResume ==
    /\ download_task = "running"
    /\ fillPc = "put"
    /\ ~QueueFull(frag_urls)
    /\ AfterFill(FillLoop(fillPending, frag_urls, frag_idx, last_fragment), elapsed)
    /\ UNCHANGED << threads, published, frag_data, index, readPc, out,
                    nGet, nBad, nDataPut, nErr >>
    /\ UNCHANGED notHLS

\* _download_worker, lines 156-159: take the smallest entry, issue its GET
WorkerGet(w) ==
    /\ wPc[w] = "get"
    /\ frag_urls # << >>
    /\ frag_urls' = Tail(frag_urls)
    /\ wItem' = [wItem EXCEPT ![w] = Head(frag_urls)]
    /\ wPc' = [wPc EXCEPT ![w] = "fetch"]
    /\ nGet' = [nGet EXCEPT ![Head(frag_urls).seq] = @ + 1]
    /\ UNCHANGED << threads, enqueued, published, frag_data, download_task, fillPc, fillExit,
                    fillPending, last_fragment, frag_idx, elapsed, wFrag, index,
                    readPc, out, nBad, nDataPut, nErr >>
    /\ UNCHANGED notHLS

\* await self._frag_data.put((i, frag)): done at once, or the worker is
\* suspended in the put
WorkerDataPut(w, i, frag) ==
    IF QueueFull(frag_data)
    THEN /\ wPc' = [wPc EXCEPT ![w] = "put_data"]
         /\ wFrag' = [wFrag EXCEPT ![w] = frag]
         /\ UNCHANGED << wItem, frag_data, nDataPut >>
    ELSE /\ frag_data' = QueuePut(frag_data, [seq |-> i, frag |-> frag])
         /\ nDataPut' = [nDataPut EXCEPT ![i] = @ + 1]
         /\ wPc' = [wPc EXCEPT ![w] = "get"]
         /\ wItem' = [wItem EXCEPT ![w] = NoItem]
         /\ wFrag' = [wFrag EXCEPT ![w] = EmptyBytes]

\* lines 168-169: status <= 299, the body is read and queued
WorkerFetchOk(w) ==
    /\ wPc[w] = "fetch"
    /\ \E body \in Bodies : WorkerDataPut(w, wItem[w].seq, body)
    /\ UNCHANGED << threads, enqueued, published, frag_urls, download_task, fillPc, fillExit,
                    fillPending, last_fragment, frag_idx, elapsed, index, readPc,
                    out, nGet, nBad, nErr >>
    /\ UNCHANGED notHLS

\* lines 160-167: status > 299
WorkerFetchBad(w) ==
    /\ wPc[w] = "fetch"
    /\ BadTotal < MaxBadStatus
    /\ wItem[w].seq <= MaxBadSeq
    /\ nBad' = [nBad EXCEPT ![wItem[w].seq] = @ + 1]
    /\ IF MayRetry(wItem[w].tries)
       THEN LET again == Retried(wItem[w])
            IN  /\ IF QueueFull(frag_urls)
                   THEN /\ wPc' = [wPc EXCEPT ![w] = "put_retry"]
                        /\ wItem' = [wItem EXCEPT ![w] = again]
                        /\ UNCHANGED frag_urls
                   ELSE /\ frag_urls' = QueuePut(frag_urls, again)
                        /\ wPc' = [wPc EXCEPT ![w] = "get"]
                        /\ wItem' = [wItem EXCEPT ![w] = NoItem]
                /\ UNCHANGED << frag_data, wFrag, nDataPut >>
       ELSE /\ WorkerDataPut(w, wItem[w].seq, EmptyBytes)
            /\ UNCHANGED frag_urls
    /\ UNCHANGED << threads, enqueued, published, download_task, fillPc, fillExit,
                    fillPending, last_fragment, frag_idx, elapsed, index, readPc,
                    out, nGet, nErr >>
    /\ UNCHANGED notHLS

\* lines 170-171: the GET or the read of the body raises; the error is
\* logged and the worker goes on with the next entry
WorkerFetchError(w) ==
    /\ wPc[w] = "fetch"
    /\ ErrTotal < MaxTransportErrors
    /\ nErr' = [nErr EXCEPT ![wItem[w].seq] = @ + 1]
    /\ frag_urls' = DroppedOnError(frag_urls, wItem[w])
    /\ wPc' = [wPc EXCEPT ![w] = "get"]
    /\ wItem' = [wItem EXCEPT ![w] = NoItem]
    /\ UNCHANGED << threads, enqueued, published, frag_data, download_task, fillPc,
                    fillExit, fillPending, last_fragment, frag_idx, elapsed, wFrag,
                    index, readPc, out, nGet, nBad, nDataPut >>
    /\ UNCHANGED notHLS

\* line 164: the suspended put of the retry goes on once frag_urls has room
WorkerPutRetry(w) ==
    /\ wPc[w] = "put_retry"
    /\ ~QueueFull(frag_urls)
    /\ frag_urls' = QueuePut(frag_urls, wItem[w])
    /\ wPc' = [wPc EXCEPT ![w] = "get"]
    /\ wItem' = [wItem EXCEPT ![w] = NoItem]
    /\ UNCHANGED << threads, enqueued, published, frag_data, download_task, fillPc, fillExit,
                    fillPending, last_fragment, frag_idx, elapsed, wFrag, index,
                    readPc, out, nGet, nBad, nDataPut, nErr >>
    /\ UNCHANGED notHLS

\* lines 167, 169: the suspended put of the payload goes on once frag_data
\* has room
WorkerPutData(w) ==
    /\ wPc[w] = "put_data"
    /\ ~QueueFull(frag_data)
    /\ WorkerDataPut(w, wItem[w].seq, wFrag[w])
    /\ UNCHANGED << threads, enqueued, published, frag_urls, download_task, fillPc, fillExit,
                    fillPending, last_fragment, frag_idx, elapsed, index, readPc,
                    out, nGet, nBad, nErr >>
    /\ UNCHANGED notHLS

\* _download_stream line 727 / read() lines 206-211 / _download lines 179-185:
\* the first run of the stream writer creates the download task, which
\* creates the workers and enters _fill_queue (line 122)
ReadStart ==
    /\ readPc = "init"
    /\ readPc' = "get"
    /\ download_task' = "running"
    /\ fillPc' = "poll"
    /\ wPc' = [w \in Workers |-> "get"]
    /\ elapsed' = 0
    /\ UNCHANGED << threads, enqueued, published, frag_urls, frag_data, fillExit, fillPending,
                    last_fragment, frag_idx, wItem, wFrag, index, out,
                    nGet, nBad, nDataPut, nErr >>
    /\ UNCHANGED notHLS

\* _read lines 198-200, read lines 211-212, _download_stream lines 728-730:
\* the smallest entry is the expected one; it is yielded and written
ReadYield ==
    /\ readPc = "get"
    /\ frag_data # << >>
    /\ Matches(Head(frag_data).seq, index)
    /\ frag_data' = Tail(frag_data)
    /\ out' = Append(out, Head(frag_data))
    /\ index' = index + 1
    /\ UNCHANGED << threads, enqueued, published, frag_urls, download_task, fillPc, fillExit,
                    fillPending, last_fragment, frag_idx, elapsed, wPc, wItem,
                    wFrag, readPc, nGet, nBad, nDataPut, nErr >>
    /\ UNCHANGED notHLS

\* _read lines 198-202: the smallest entry is not the expected one; it is
\* put back (the get has just made room, so the put does not wait) and the
\* reader sleeps
ReadRequeue ==
    /\ readPc = "get"
    /\ frag_data # << >>
    /\ ~Matches(Head(frag_data).seq, index)
    /\ ~QueueFull(Tail(frag_data))
    /\ frag_data' = QueuePut(Tail(frag_data), Head(frag_data))
    /\ readPc' = "sleep"
    /\ UNCHANGED << threads, enqueued, published, frag_urls, download_task, fillPc, fillExit,
                    fillPending, last_fragment, frag_idx, elapsed, wPc, wItem,
                    wFrag, index, out, nGet, nBad, nDataPut, nErr >>
    /\ UNCHANGED notHLS

\* _read line 202: asyncio.sleep(0.1) is over
ReadWake ==
    /\ readPc = "sleep"
    /\ readPc' = "get"
    /\ UNCHANGED << threads, enqueued, published, frag_urls, frag_data, download_task, fillPc,
                    fillExit, fillPending, last_fragment, frag_idx, elapsed, wPc,
                    wItem, wFrag, index, out, nGet, nBad, nDataPut, nErr >>
    /\ UNCHANGED notHLS

\* read lines 213-217: the stream writer task is cancelled while it waits in
\* _read; the download task is cancelled and awaited.  __aexit__ (lines
\* 110-112) cancels and awaits the same task when the block is left
ReadCancel ==
    /\ readPc \in {"get", "sleep"}
    /\ IF download_task = "done"
       THEN /\ readPc' = "done"
            /\ UNCHANGED download_task
       ELSE /\ readPc' = "cancelling"
            /\ download_task' = "cancelling"
    /\ UNCHANGED << threads, enqueued, published, frag_urls, frag_data, fillPc, fillExit,
                    fillPending, last_fragment, frag_idx, elapsed, wPc, wItem,
                    wFrag, index, out, nGet, nBad, nDataPut, nErr >>
    /\ UNCHANGED notHLS

\* _download lines 191-194: CancelledError reaches the download task in
\* _fill_queue
DownloadCancelled ==
    /\ download_task = "cancelling"
    /\ EndDownload("cancelled")
    /\ UNCHANGED << threads, enqueued, published, frag_urls, frag_data, last_fragment,
                    frag_idx, elapsed, index, readPc, out, nGet, nBad, nDataPut, nErr >>
    /\ UNCHANGED notHLS

\* read line 217, _download_stream lines 727-733: the awaited download task
\* has ended; the generator returns and the stream writer ends
ReadCancelled ==
    /\ readPc = "cancelling"
    /\ download_task = "done"
    /\ readPc' = "done"
    /\ UNCHANGED << threads, enqueued, published, frag_urls, frag_data, download_task, fillPc,
                    fillExit, fillPending, last_fragment, frag_idx, elapsed, wPc,
                    wItem, wFrag, index, out, nGet, nBad, nDataPut, nErr >>
    /\ UNCHANGED notHLS

\* HLSDownloader.__init__ (lines 94-101) with --threads drawn from 1..MaxThreads
HLSInit ==
    /\ threads \in 1 .. MaxThreads
    /\ published = 0
    /\ frag_urls = << >>
    /\ frag_data = << >>
    /\ download_task = "none"
    /\ fillPc = "init"
    /\ fillExit = "none"
    /\ fillPending = << >>
    /\ last_fragment = None
    /\ frag_idx = 0
    /\ elapsed = 0
    /\ wPc = [w \in 1 .. threads |-> "init"]
    /\ wItem = [w \in 1 .. threads |-> NoItem]
    /\ wFrag = [w \in 1 .. threads |-> EmptyBytes]
    /\ index = 0
    /\ readPc = "init"
    /\ out = << >>
    /\ nGet = [k \in Seqs |-> 0]
    /\ nBad = [k \in Seqs |-> 0]
    /\ nDataPut = [k \in Seqs |-> 0]
    /\ nErr = [k \in Seqs |-> 0]
    /\ enqueued = << >>

\* the steps of the poller, the workers and the reader
PipelineStep ==
    \/ ReadStart
    \/ FillPoll
    \/ FillPollFinished
    \/ FillPollError
    \/ FillPutResume
    \/ \E w \in Workers : WorkerGet(w)
    \/ \E w \in Workers : WorkerFetchOk(w)
    \/ \E w \in Workers : WorkerFetchBad(w)
    \/ \E w \in Workers : WorkerFetchError(w)
    \/ \E w \in Workers : WorkerPutRetry(w)
    \/ \E w \in Workers : WorkerPutData(w)
    \/ ReadYield
    \/ ReadRequeue
    \/ ReadWake
    \/ DownloadCancelled
    \/ ReadCancelled

HLSNext ==
    \/ PipelineStep
    \/ ServerPublish
    \/ TimePasses
    \/ ReadCancel

(***************************************************************************)
(* FC2LiveDL.download from line 653 on: the WebSocket is open (its          *)
(* _main_loop task runs since __aenter__, line 249) and the HLS information *)
(* has arrived.  T1 is wait_disconnection, T2 is _download_stream, T3 is    *)
(* _download_chat.                                                          *)
(*                                                                         *)
(* The event loop runs ready tasks first in, first out: when download() is  *)
(* suspended, every task whose wake-up is already scheduled runs once       *)
(* before download() goes on.  mustRun holds those tasks.                   *)
(***************************************************************************)
T1 == "wait_disconnection"
T2 == "_download_stream"
T3 == "_download_chat"
MainLoop == "_main_loop"
Tasks == { T1, T2, T3 }

\* tasks: [] (line 610) until the tasks are created at line 664
tasks ==
    IF tState[T1] = "none" THEN << >>
    ELSE IF write_chat THEN << T1, T2, T3 >> ELSE << T1, T2 >>

\* the subclasses of ServerDisconnection, lines 371-388
Disconnections == { "ServerDisconnection", "PaidProgramDisconnection",
                    "LoginRequiredError", "MultipleConnectionError" }
\* what _main_loop can end with: a control_disconnection frame (lines
\* 306-315) or the 30 s receive timeout (line 295)
MainLoopErrors == Disconnections \cup { "TimeoutError" }
\* the except clauses of download(), lines 682-685
Caught == Disconnections \cup { "CancelledError" }

\* task.done()
Finished(ts, t) == ts[t] \in { "done", "failed", "cancelled" }

\* task.exception() of a task that ended with an exception
TaskException(t) == IF t = T1 THEN mlExc ELSE "OSError"

\* Task.cancel(): a task that is not done gets CancelledError at its next run
Cancel(ts, S) ==
    [ t \in Tasks |-> IF t \in S /\ ts[t] = "running" THEN "cancel_req" ELSE ts[t] ]

\* lines 673-676
CancelPending(ts, pending) == Cancel(ts, pending)

\* the tasks whose wake-up is scheduled: a cancelled T2 or T3, T1 once the
\* task it awaits is done, _main_loop once cancelled
Ready(ts, ml) ==
    { t \in { T2, T3 } : ts[t] = "cancel_req" }
        \cup (IF ts[T1] \in { "running", "cancel_req" } /\ ml \in { "failed", "cancelled" }
              THEN { T1 } ELSE { })
        \cup (IF ml = "cancel_req" THEN { MainLoop } ELSE { })

\* the first position from i on in tasks whose task is not done, 0 if none
RECURSIVE FirstNotDone(_, _)
FirstNotDone(ts, i) ==
    IF i > Len(tasks) THEN 0
    ELSE IF ~Finished(ts, tasks[i]) THEN i
    ELSE FirstNotDone(ts, i + 1)

(***************************************************************************)
(* download() before the recording, lines 612-651: the metadata, the       *)
(* output paths, the control-server URL, the WebSocket and the HLS         *)
(* information.  The thumbnail download (lines 638-644) is left out.       *)
(***************************************************************************)
\* a session that goes on to wait although wait_for_live is not set
NeverFailsOffline(wait) == FALSE
\* line 619: `if not self.params['wait_for_live']`
FailsOffline(wait) == ~wait

\* lines 623-634: _prepare_file for every output (it creates the parent
\* directories) and the info json
Prepared(ev) ==
    ev \o << "prepare_file" >>
       \o (IF write_info_json THEN << "write_info_json" >> ELSE << >>)

\* lines 617-621: the first metadata fetch; is_publish > 0 means online
DlFetchMeta ==
    /\ dlPc = "start"
    /\ \E pub \in { 0, 1 } :
          /\ is_publish' = pub
          /\ IF pub > 0
             THEN /\ dlPc' = "ws_url"
                  /\ events' = Prepared(events)
                  /\ UNCHANGED dlExc
             ELSE IF FailsOffline(wait_for_live)
             THEN /\ dlPc' = "raised"
                  /\ dlExc' = "NotOnlineException"
                  /\ UNCHANGED events
             ELSE /\ dlPc' = "wait_online"
                  /\ UNCHANGED << dlExc, events >>
    /\ UNCHANGED << write_chat, remux, dlParams, wsOpened, muxedExists, tState,
                    mlState, mlExc, mustRun, finIdx, fileExists, wsClosed, remuxed,
                    logged, interrupted, exitedSet, cancelAsked >>
    /\ UNCHANGED notDL

\* wait_for_online, lines 404-408: a later poll finds the stream online
DlWaitOnline ==
    /\ dlPc = "wait_online"
    /\ is_publish' = 1
    /\ dlPc' = "ws_url"
    /\ events' = Prepared(events)
    /\ UNCHANGED << write_chat, remux, dlParams, wsOpened, muxedExists, dlExc,
                    tState, mlState, mlExc, mustRun, finIdx, fileExists, wsClosed,
                    remuxed, logged, interrupted, exitedSet, cancelAsked >>
    /\ UNCHANGED notDL

\* line 646, get_websocket_url (lines 414-452): the control server is asked
\* for the URL; the request or the decoding of its answer may raise
DlGetWebsocketUrl ==
    /\ dlPc = "ws_url"
    /\ events' = Append(events, "get_websocket_url")
    /\ \E ok \in BOOLEAN :
          IF ok THEN dlPc' = "ws_connect" /\ UNCHANGED dlExc
          ELSE dlPc' = "raised" /\ dlExc' = "ClientError"
    /\ UNCHANGED << write_chat, remux, dlParams, dlSession, tState, mlState, mlExc,
                    mustRun, finIdx, fileExists, wsClosed, remuxed, logged,
                    interrupted, exitedSet, cancelAsked >>
    /\ UNCHANGED notDL

\* line 648, FC2WebSocket.__aenter__ (lines 245-254): ws_connect; when it
\* has connected the _main_loop task is created
DlWsConnect ==
    /\ dlPc = "ws_connect"
    /\ events' = Append(events, "ws_connect")
    /\ \E ok \in BOOLEAN :
          IF ok
          THEN /\ dlPc' = "hls"
               /\ wsOpened' = TRUE
               /\ mlState' = "running"
               /\ UNCHANGED dlExc
          ELSE /\ dlPc' = "raised"
               /\ dlExc' = "ClientError"
               /\ UNCHANGED << wsOpened, mlState >>
    /\ UNCHANGED << write_chat, remux, dlParams, is_publish, muxedExists, tState,
                    mlExc, mustRun, finIdx, fileExists, wsClosed, remuxed, logged,
                    interrupted, exitedSet, cancelAsked >>
    /\ UNCHANGED notDL

\* lines 649-651: get_hls_information has returned and a URL was chosen
DlHlsReturns ==
    /\ dlPc = "hls"
    /\ dlPc' = "create"
    /\ UNCHANGED << write_chat, remux, dlParams, dlSession, events, dlExc, tState,
                    mlState, mlExc, mustRun, finIdx, fileExists, wsClosed, remuxed,
                    logged, interrupted, exitedSet, cancelAsked >>
    /\ UNCHANGED notDL

\* lines 664-667: the tasks are created and download() waits for the first
\* to end; each task runs up to its first suspension.  _download_stream
\* opens the stream file (line 724); if that fails the error is logged
\* (line 735) and the task is over
DlCreateTasks ==
    /\ dlPc = "create"
    /\ \E opened \in BOOLEAN :
          /\ fileExists' = opened
          /\ events' = IF opened THEN Append(events, "open_stream") ELSE events
          /\ tState' = [ t \in Tasks |->
                           IF t = T3 /\ ~write_chat THEN "none"
                           ELSE IF t = T2 /\ ~opened THEN "done"
                           ELSE "running" ]
    /\ dlPc' = "wait"
    /\ UNCHANGED << write_chat, remux, dlExc, mlState, mlExc, mustRun, finIdx,
                    wsClosed, remuxed, logged, interrupted, exitedSet, cancelAsked >>
    /\ UNCHANGED << dlParams, dlSession >>
    /\ UNCHANGED notDL

\* the task of _main_loop is done with exception e
MainLoopEnds(e) ==
    /\ mlState = "running"
    /\ mlExc' = e
    /\ mlState' = "failed"
    /\ UNCHANGED << write_chat, remux, dlPc, dlExc, tState, mustRun, finIdx,
                    fileExists, wsClosed, remuxed, logged, interrupted,
                    exitedSet, cancelAsked >>
    /\ UNCHANGED << dlParams, dlSession, events >>

\* _main_loop, lines 295 and 306-315: the loop ends with an exception
MainLoopFails ==
    /\ \E e \in MainLoopErrors : MainLoopEnds(e)
    /\ UNCHANGED notDL

\* the cancelled _main_loop runs: CancelledError ends it
MainLoopCancelled ==
    /\ mlState = "cancel_req"
    /\ mlState' = "cancelled"
    /\ mustRun' = mustRun \ { MainLoop }
    /\ UNCHANGED << write_chat, remux, dlPc, dlExc, tState, mlExc, finIdx,
                    fileExists, wsClosed, remuxed, logged, interrupted,
                    exitedSet, cancelAsked >>
    /\ UNCHANGED << dlParams, dlSession, events >>
    /\ UNCHANGED notDL

\* wait_disconnection, line 264: `await self._task` raises what _main_loop
\* ended with, or CancelledError
WaitDisconnectionEnds ==
    /\ tState[T1] \in { "running", "cancel_req" }
    /\ mlState \in { "failed", "cancelled" }
    /\ tState' = [ tState EXCEPT ![T1] =
                     IF tState[T1] = "running" /\ mlState = "failed"
                     THEN "failed" ELSE "cancelled" ]
    /\ mustRun' = mustRun \ { T1 }
    /\ UNCHANGED << write_chat, remux, dlPc, dlExc, mlState, mlExc, finIdx,
                    fileExists, wsClosed, remuxed, logged, interrupted,
                    exitedSet, cancelAsked >>
    /\ UNCHANGED << dlParams, dlSession, events >>
    /\ UNCHANGED notDL

\* _download_stream, lines 727-735: the fragment generator ends or raises;
\* the exception is logged and the task returns
StreamEnds ==
    /\ tState[T2] = "running"
    /\ dlPc # "create"
    /\ tState' = [ tState EXCEPT ![T2] = "done" ]
    /\ UNCHANGED << write_chat, remux, dlPc, dlExc, mlState, mlExc, mustRun, finIdx,
                    fileExists, wsClosed, remuxed, logged, interrupted,
                    exitedSet, cancelAsked >>
    /\ UNCHANGED << dlParams, dlSession, events >>
    /\ UNCHANGED notDL

\* _download_stream, line 732 / read lines 213-217: the cancelled task runs;
\* it cancels the download task and either waits for it to end or, if it
\* has ended, returns at once
StreamCancelRuns ==
    /\ tState[T2] = "cancel_req"
    /\ \E waits \in BOOLEAN :
          tState' = [ tState EXCEPT ![T2] = IF waits THEN "unwinding" ELSE "done" ]
    /\ mustRun' = mustRun \ { T2 }
    /\ UNCHANGED << write_chat, remux, dlPc, dlExc, mlState, mlExc, finIdx,
                    fileExists, wsClosed, remuxed, logged, interrupted,
                    exitedSet, cancelAsked >>
    /\ UNCHANGED << dlParams, dlSession, events >>
    /\ UNCHANGED notDL

\* _download_stream, lines 732-733: the download task has ended; the
\* CancelledError is caught and the task returns
StreamCancelEnds ==
    /\ tState[T2] = "unwinding"
    /\ tState' = [ tState EXCEPT ![T2] = "done" ]
    /\ UNCHANGED << write_chat, remux, dlPc, dlExc, mlState, mlExc, mustRun, finIdx,
                    fileExists, wsClosed, remuxed, logged, interrupted,
                    exitedSet, cancelAsked >>
    /\ UNCHANGED << dlParams, dlSession, events >>
    /\ UNCHANGED notDL

\* _download_chat, lines 748-752: opening or writing the chat file raises
ChatFails ==
    /\ tState[T3] = "running"
    /\ tState' = [ tState EXCEPT ![T3] = "failed" ]
    /\ UNCHANGED << write_chat, remux, dlPc, dlExc, mlState, mlExc, mustRun, finIdx,
                    fileExists, wsClosed, remuxed, logged, interrupted,
                    exitedSet, cancelAsked >>
    /\ UNCHANGED << dlParams, dlSession, events >>
    /\ UNCHANGED notDL

\* _download_chat, line 750: the cancelled task runs; nothing catches the
\* CancelledError
ChatCancelled ==
    /\ tState[T3] = "cancel_req"
    /\ tState' = [ tState EXCEPT ![T3] = "cancelled" ]
    /\ mustRun' = mustRun \ { T3 }
    /\ UNCHANGED << write_chat, remux, dlPc, dlExc, mlState, mlExc, finIdx,
                    fileExists, wsClosed, remuxed, logged, interrupted,
                    exitedSet, cancelAsked >>
    /\ UNCHANGED << dlParams, dlSession, events >>
    /\ UNCHANGED notDL

\* line 694: the stream is remuxed.  fname_stream is not None whenever the
\* stream file exists, since _download_stream gets its name from it
MuxerDue(rmx, isfile) == rmx /\ isfile

\* lines 688-712 from position i of the finally loop on, with the tasks in
\* states ts and exc the exception no except clause caught ("none" if
\* none): the loop goes on to the first task that is not done, cancels it
\* and awaits it; when there is none the exception goes on or, without
\* one, the stream is remuxed if asked for and the file exists
RunFinally(ts, i, exc, ml, asked) ==
    LET j == FirstNotDone(ts, i)
    IN  IF j = 0
        THEN /\ dlPc' = (IF exc # "none" THEN "raised"
                         ELSE IF MuxerDue(remux, fileExists) THEN "remux"
                         ELSE "done")
             /\ remuxed' = (exc = "none" /\ MuxerDue(remux, fileExists))
             /\ events' = IF exc = "none" /\ MuxerDue(remux, fileExists)
                          THEN Append(events, "muxer") ELSE events
             /\ dlExc' = exc
             /\ tState' = ts
             /\ cancelAsked' = asked
             /\ finIdx' = i
             /\ mustRun' = { }
        ELSE /\ dlPc' = "await"
             /\ tState' = Cancel(ts, { tasks[j] })
             /\ cancelAsked' = asked \cup { tasks[j] }
             /\ finIdx' = j
             /\ mustRun' = Ready(Cancel(ts, { tasks[j] }), ml)
             /\ dlExc' = exc
             /\ UNCHANGED << remuxed, events >>

\* an __aexit__ that leaves the receive loop alone
AfterExitNoCancel(ml) == ml
\* FC2WebSocket.__aexit__, lines 258-259: the receive loop is cancelled
\* unless it is done
AfterExit(ml) == IF ml = "running" THEN "cancel_req" ELSE ml

\* download() leaves the `async with` block with exception e ("none" if
\* none): FC2WebSocket.__aexit__ (lines 256-261) cancels _main_loop and
\* awaits ws.close(), which returns at once or after a suspension; then the
\* except clauses (lines 682-685) and the finally block
Leave(e, ts, suspends) ==
    LET ml == AfterExit(mlState)
        exc == IF e \in Caught THEN "none" ELSE e
        asked == cancelAsked \cup { t \in Tasks : ts[t] # tState[t] }
    IN  /\ mlState' = ml
        /\ wsClosed' = TRUE
        /\ logged' = IF e = "CancelledError" THEN logged \cup { "Interrupted by user" }
                     ELSE IF e \in Disconnections THEN logged \cup { "Disconnected" }
                     ELSE logged
        /\ IF suspends
           THEN /\ dlPc' = "close"
                /\ mustRun' = Ready(ts, ml)
                /\ tState' = ts
                /\ cancelAsked' = asked
                /\ dlExc' = exc
                /\ finIdx' = 1
                /\ UNCHANGED << remuxed, events >>
           ELSE RunFinally(ts, 1, exc, ml, asked)

\* what get_hls_information can raise: EmptyPlaylistException (line 289),
\* the exception _main_loop ended with (line 349), or CancelledError when
\* the user interrupts
HlsErrors == { "EmptyPlaylistException", "CancelledError" } \cup MainLoopErrors

\* line 649: get_hls_information raises and download() leaves the
\* `async with` block before any task is created
DlHlsRaises ==
    /\ dlPc = "hls"
    /\ \E e \in HlsErrors, suspends \in BOOLEAN :
          /\ e \in MainLoopErrors => (mlState = "failed" /\ mlExc = e)
          /\ Leave(e, tState, suspends)
    /\ UNCHANGED << write_chat, remux, dlParams, dlSession, mlExc, fileExists,
                    interrupted, exitedSet >>
    /\ UNCHANGED notDL

\* lines 667-681: asyncio.wait returns; the pending tasks are cancelled and
\* the exception of one exited task, if it has one, is raised
DlTasksExited ==
    /\ dlPc = "wait"
    /\ LET ex == { t \in Tasks : Finished(tState, t) }
           pending == { t \in Tasks : tState[t] # "none" /\ ~Finished(tState, t) }
       IN  /\ ex # { }
           /\ exitedSet' = ex
           /\ \E exited \in ex, suspends \in BOOLEAN :
                 Leave(IF tState[exited] = "failed" THEN TaskException(exited)
                       ELSE IF tState[exited] = "cancelled" THEN "CancelledError"
                       ELSE "none",
                       CancelPending(tState, pending), suspends)
    /\ UNCHANGED << write_chat, remux, mlExc, fileExists, interrupted >>
    /\ UNCHANGED << dlParams, dlSession >>
    /\ UNCHANGED notDL

\* __main__, lines 1051-1054: Ctrl-C cancels the main task, which is waiting
\* in asyncio.wait (line 667)
DlInterrupt ==
    /\ dlPc = "wait"
    /\ interrupted' = TRUE
    /\ \E suspends \in BOOLEAN : Leave("CancelledError", tState, suspends)
    /\ UNCHANGED << write_chat, remux, mlExc, fileExists, exitedSet >>
    /\ UNCHANGED << dlParams, dlSession >>
    /\ UNCHANGED notDL

\* line 260: ws.close() is over; download() goes on to the finally block
DlCloseDone ==
    /\ dlPc = "close"
    /\ mustRun = { }
    /\ RunFinally(tState, 1, dlExc, mlState, cancelAsked)
    /\ UNCHANGED << write_chat, remux, mlState, mlExc, fileExists, wsClosed,
                    logged, interrupted, exitedSet >>
    /\ UNCHANGED << dlParams, dlSession >>
    /\ UNCHANGED notDL

\* line 692: the awaited task is done; `await task` returns and the loop
\* goes on, or it raises the task's exception or CancelledError, which
\* leaves download()
DlAwaitDone ==
    /\ dlPc = "await"
    /\ Finished(tState, tasks[finIdx])
    /\ mustRun = { }
    /\ IF tState[tasks[finIdx]] = "done"
       THEN RunFinally(tState, finIdx + 1, dlExc, mlState, cancelAsked)
       ELSE /\ dlPc' = "raised"
            /\ dlExc' = IF tState[tasks[finIdx]] = "cancelled" THEN "CancelledError"
                        ELSE TaskException(tasks[finIdx])
            /\ UNCHANGED << tState, mustRun, finIdx, remuxed, cancelAsked, events >>
    /\ UNCHANGED << write_chat, remux, mlState, mlExc, fileExists, wsClosed,
                    logged, interrupted, exitedSet >>
    /\ UNCHANGED << dlParams, dlSession >>
    /\ UNCHANGED notDL

(***************************************************************************)
(* download() after the recording, lines 694-712.                          *)
(***************************************************************************)
\* a clean-up that removes the stream file whatever the options
MayRemoveAlways(keep, muxed) == TRUE
\* line 704
MayRemove(keep, muxed) == ~keep /\ muxed

\* lines 704-712 with ev what was done so far and muxed the value of
\* os.path.isfile(fname_muxed)
RemoveIntermediates(ev, muxed) ==
    /\ dlPc' = "done"
    /\ IF MayRemove(keep_intermediates, muxed)
       THEN /\ fileExists' = FALSE
            /\ events' = Append(ev, "remove_stream")
       ELSE /\ events' = ev
            /\ UNCHANGED fileExists
    /\ UNCHANGED dlExc

\* lines 696-699: the muxer run is over, with or without a muxed file (its
\* exit code is not looked at), or ffmpeg could not be started and
\* create_subprocess_exec (line 492) has raised
DlRemuxDone ==
    /\ dlPc = "remux"
    /\ \E started \in BOOLEAN, muxed \in BOOLEAN :
          IF ~started
          THEN /\ dlPc' = "raised"
               /\ dlExc' = "FileNotFoundError"
               /\ UNCHANGED << muxedExists, fileExists, events >>
          ELSE /\ muxedExists' = muxed
               /\ IF extract_audio
                  THEN /\ dlPc' = "audio"
                       /\ events' = events \o << "muxer_done", "audio" >>
                       /\ UNCHANGED << fileExists, dlExc >>
                  ELSE RemoveIntermediates(Append(events, "muxer_done"), muxed)
    /\ UNCHANGED << write_chat, remux, dlParams, is_publish, wsOpened, tState,
                    mlState, mlExc, mustRun, finIdx, wsClosed, remuxed, logged,
                    interrupted, exitedSet, cancelAsked >>
    /\ UNCHANGED notDL

\* lines 701-702: the audio run is over.  With quality 'sound' fname_audio
\* and fname_muxed are the same path (lines 627-628), so this run can bring
\* the muxed file into being
DlAudioDone ==
    /\ dlPc = "audio"
    /\ \E started \in BOOLEAN, made \in BOOLEAN :
          IF ~started
          THEN /\ dlPc' = "raised"
               /\ dlExc' = "FileNotFoundError"
               /\ UNCHANGED << muxedExists, fileExists, events >>
          ELSE /\ muxedExists' = (muxedExists \/ made)
               /\ RemoveIntermediates(Append(events, "audio_done"), muxedExists \/ made)
    /\ UNCHANGED << write_chat, remux, dlParams, is_publish, wsOpened, tState,
                    mlState, mlExc, mustRun, finIdx, wsClosed, remuxed, logged,
                    interrupted, exitedSet, cancelAsked >>
    /\ UNCHANGED notDL

\* the state at line 610, with the options drawn from their ranges
DLInit ==
    /\ write_chat \in BOOLEAN
    /\ remux \in BOOLEAN
    /\ wait_for_live \in BOOLEAN
    /\ write_info_json \in BOOLEAN
    /\ extract_audio \in BOOLEAN
    /\ keep_intermediates \in BOOLEAN
    /\ is_publish = NoMeta
    /\ wsOpened = FALSE
    /\ muxedExists = FALSE
    /\ events = << >>
    /\ dlPc = "start"
    /\ dlExc = "none"
    /\ tState = [ t \in Tasks |-> "none" ]
    /\ mlState = "none"
    /\ mlExc = "none"
    /\ mustRun = { }
    /\ finIdx = 1
    /\ fileExists = FALSE
    /\ wsClosed = FALSE
    /\ remuxed = FALSE
    /\ logged = { }
    /\ interrupted = FALSE
    /\ exitedSet = { }
    /\ cancelAsked = { }

\* the steps of download() and of its tasks other than the end of _main_loop
DLSteps ==
    \/ DlFetchMeta
    \/ DlWaitOnline
    \/ DlGetWebsocketUrl
    \/ DlWsConnect
    \/ DlHlsReturns
    \/ DlHlsRaises
    \/ DlCreateTasks
    \/ MainLoopCancelled
    \/ WaitDisconnectionEnds
    \/ StreamEnds
    \/ StreamCancelRuns
    \/ StreamCancelEnds
    \/ ChatFails
    \/ ChatCancelled
    \/ DlTasksExited
    \/ DlInterrupt
    \/ DlCloseDone
    \/ DlAwaitDone
    \/ DlRemuxDone
    \/ DlAudioDone

DLNext ==
    \/ DLSteps
    \/ MainLoopFails

(***************************************************************************)
(* FC2WebSocket: the receive loop with its heartbeats, _send_message,      *)
(* _send_message_and_wait over AsyncMap, and get_hls_information.          *)
(***************************************************************************)
Ids == 0 .. MaxIds

\* 2 ** n
RECURSIVE Pow2(_)
Pow2(n) == IF n = 0 THEN 1 ELSE 2 * Pow2(n - 1)

\* a _send_message that does not advance the counter
SameMsgId(id) == id
\* line 355: self._msg_id += 1
NextMsgId(id) == id + 1

\* _send_message, lines 355-368: the id is allocated, the message is built
\* and send_json writes the frame; the sender may then be suspended in
\* send_json.  u is the set of requests the server has not answered; it
\* answers get_hls_information requests, and only the latest one
SendMessage(name, u) ==
    /\ msg_id < MaxIds
    /\ msg_id' = NextMsgId(msg_id)
    /\ socket' = Append(socket, [name |-> name, id |-> NextMsgId(msg_id),
                                 at |-> IF name = "heartbeat" THEN now ELSE 0])
    /\ unanswered' = IF name = "get_hls_information"
                     THEN { NextMsgId(msg_id) } ELSE u

\* a heartbeat rule that never holds a heartbeat back
HeartbeatAlwaysDue(t, last) == TRUE
\* line 323, negated: the heartbeat is not skipped
HeartbeatDue(t, last) == ~(t - last < heartbeat_interval)

\* _try_heartbeat, lines 322-326
TryHeartbeat(u) ==
    IF ~HeartbeatDue(now, last_heartbeat)
    THEN /\ loopPc' = "recv"
         /\ recv_since' = now
         /\ unanswered' = u
         /\ UNCHANGED << msg_id, socket >>
    ELSE /\ SendMessage("heartbeat", u)
         /\ loopPc' = "heartbeat"
         /\ UNCHANGED recv_since

\* AsyncMap.put and pop, lines 81-91: the response goes into the map under
\* its id and every task waiting in pop is notified; each of them runs
\* next, takes the entry of its key out of the map if there is one, and
\* waits again if there is none
Taken(m) == { r \in m : popPc[r.id] = "waiting" }

AfterPut(m) ==
    /\ msg_responses' = m \ Taken(m)
    /\ popPc' = [ i \in Ids |->
                    IF \E r \in Taken(m) : r.id = i
                    THEN (IF (CHOOSE r \in Taken(m) : r.id = i).playlists
                          THEN "full" ELSE "empty")
                    ELSE popPc[i] ]

\* _main_loop, lines 295-305 and 320: the server answers a request; the
\* response is put into the map, then _try_heartbeat
RecvResponse ==
    /\ loopPc = "recv"
    /\ \E id \in unanswered, playlists \in BOOLEAN :
          /\ AfterPut({ r \in msg_responses : r.id # id }
                          \cup { [id |-> id, playlists |-> playlists] })
          /\ TryHeartbeat(unanswered \ { id })
    /\ UNCHANGED << last_heartbeat, now, hlsPc, tries, wait_id, timer,
                    nReq, nFailed, backoffs >>
    /\ UNCHANGED << loopExc, hlsExc, wait_ret >>
    /\ UNCHANGED notWS

\* _main_loop, lines 295-320: a connect_complete or a comment frame
RecvOther ==
    /\ loopPc = "recv"
    /\ TryHeartbeat(unanswered)
    /\ UNCHANGED << last_heartbeat, now, msg_responses, popPc, hlsPc, tries,
                    wait_id, timer, nReq, nFailed, backoffs >>
    /\ UNCHANGED << loopExc, hlsExc, wait_ret >>
    /\ UNCHANGED notWS

\* no exception
NoExc == [kind |-> "none", code |-> 0]
\* asyncio.TimeoutError of wait_for, line 295
TimeoutExc == [kind |-> "TimeoutError", code |-> 0]

\* the codes a control_disconnection frame carries: the three the program
\* knows and another one
DisconnectionCodes == { 4101, 4507, 4512, 4000 }

\* a loop that raises the generic exception for every code
DisconnectionKindGeneric(code) == "ServerDisconnection"
\* lines 307-315: the exception class raised for arguments.code
DisconnectionKind(code) ==
    IF code = 4101 THEN "PaidProgramDisconnection"
    ELSE IF code = 4507 THEN "LoginRequiredError"
    ELSE IF code = 4512 THEN "MultipleConnectionError"
    ELSE "ServerDisconnection"

\* the exception with the code it carries (lines 373-375, 382, 386, 390)
Disconnection(code) == [kind |-> DisconnectionKind(code), code |-> code]

\* _main_loop is left by exception e while it waits in receive_json
LoopEnds(e) ==
    /\ loopPc = "recv"
    /\ loopPc' = "failed"
    /\ loopExc' = e
    /\ UNCHANGED << msg_id, socket, last_heartbeat, now, msg_responses, popPc,
                    unanswered, hlsPc, tries, wait_id, timer, hlsExc,
                    wait_ret, recv_since, nReq, nFailed, backoffs >>

\* _main_loop, lines 306-315: a control_disconnection frame arrives
RecvDisconnection ==
    /\ \E code \in DisconnectionCodes : LoopEnds(Disconnection(code))
    /\ UNCHANGED notWS

\* a wait_for that gives up at once
ReceiveAlwaysTimedOut(t, since) == TRUE
\* line 295: wait_for(receive_json(), heartbeat_interval) has run out
ReceiveTimedOut(t, since) == t - since >= heartbeat_interval

\* _main_loop, line 295: no frame has arrived in time; asyncio.TimeoutError
\* leaves the loop
RecvTimeout ==
    /\ ReceiveTimedOut(now, recv_since)
    /\ LoopEnds(TimeoutExc)
    /\ UNCHANGED notWS

\* _try_heartbeat, line 327: send_json is over
HeartbeatSent ==
    /\ loopPc = "heartbeat"
    /\ last_heartbeat' = now
    /\ loopPc' = "recv"
    /\ recv_since' = now
    /\ UNCHANGED << msg_id, socket, now, msg_responses, popPc, unanswered, hlsPc,
                    tries, wait_id, timer, nReq, nFailed, backoffs >>
    /\ UNCHANGED << loopExc, hlsExc, wait_ret >>
    /\ UNCHANGED notWS

\* time goes by, but not past the end of the wait_for of line 295
Tick ==
    /\ now < heartbeat_interval * MaxHeartbeats
    /\ ~(loopPc = "recv" /\ ReceiveTimedOut(now, recv_since))
    /\ now' = now + ClockStep
    /\ UNCHANGED << msg_id, socket, loopPc, last_heartbeat, msg_responses, popPc,
                    unanswered, hlsPc, tries, wait_id, timer, nReq, nFailed, backoffs >>
    /\ UNCHANGED << loopExc, hlsExc, wait_ret, recv_since >>
    /\ UNCHANGED notWS

\* get_hls_information, line 274 / _send_message_and_wait, line 330: the
\* next request is sent
SendRequest ==
    /\ SendMessage("get_hls_information", unanswered)
    /\ nReq' = nReq + 1
    /\ hlsPc' = "send"

\* get_hls_information, lines 269-274: the call, up to the suspension in
\* send_json
HlsCall ==
    /\ hlsPc = "idle"
    /\ SendRequest
    /\ UNCHANGED << loopPc, last_heartbeat, now, msg_responses, popPc, tries,
                    wait_id, timer, nFailed, backoffs >>
    /\ UNCHANGED << loopExc, hlsExc, wait_ret, recv_since >>
    /\ UNCHANGED notWS

\* _send_message line 369 and _send_message_and_wait lines 330-346:
\* send_json is over; _send_message returns self._msg_id as it is now, the
\* pop task and the timeout task are created and the caller waits for the
\* first of them or of _main_loop.  The pop task runs next and waits on the
\* condition (AsyncMap.pop, lines 87-89) whatever the map holds
HlsSendReturns ==
    /\ hlsPc = "send"
    /\ wait_id' = msg_id
    /\ popPc' = [ popPc EXCEPT ![msg_id] = "waiting" ]
    /\ timer' = "running"
    /\ hlsPc' = "wait"
    /\ UNCHANGED << msg_id, socket, loopPc, last_heartbeat, now, msg_responses,
                    unanswered, tries, nReq, nFailed, backoffs >>
    /\ UNCHANGED << loopExc, hlsExc, wait_ret, recv_since >>
    /\ UNCHANGED notWS

\* the 'timeout' task of line 337: asyncio.sleep(5) is over
TimerFires ==
    /\ timer = "running"
    /\ timer' = "done"
    /\ UNCHANGED << msg_id, socket, loopPc, last_heartbeat, now, msg_responses,
                    popPc, unanswered, hlsPc, tries, wait_id, nReq, nFailed, backoffs >>
    /\ UNCHANGED << loopExc, hlsExc, wait_ret, recv_since >>
    /\ UNCHANGED notWS

\* a race that leaves out the task of _main_loop
DoneTasksWithoutLoop ==
    (IF popPc[wait_id] \in { "full", "empty" } THEN { "pop" } ELSE { })
        \cup (IF timer = "done" THEN { "timeout" } ELSE { })
\* the tasks of line 332-340 that are done
DoneTasks ==
    (IF popPc[wait_id] \in { "full", "empty" } THEN { "pop" } ELSE { })
        \cup (IF loopPc = "failed" THEN { "main_loop" } ELSE { })
        \cup (IF timer = "done" THEN { "timeout" } ELSE { })

\* get_hls_information, lines 276-291, once the attempt has ended with msg
\* ("None", "full": a response with 'playlists', "empty": one without)
AfterAttempt(m) ==
    /\ tries' = tries + 1
    /\ IF m = "full"
       THEN /\ hlsPc' = (IF tries + 1 = max_tries THEN "EmptyPlaylist" ELSE "returned")
            /\ UNCHANGED << nFailed, backoffs >>
       ELSE /\ hlsPc' = "backoff"
            /\ nFailed' = nFailed + 1
            /\ backoffs' = Append(backoffs, Pow2(tries))

\* _send_message_and_wait, lines 342-352: asyncio.wait returns and one of
\* the done tasks is taken; _main_loop: a pending task is cancelled and the
\* loop's exception is raised (KeyError if no task is pending); timeout:
\* None; else the response
HlsWaitReturns ==
    /\ hlsPc = "wait"
    /\ \E d \in DoneTasks :
          IF d = "main_loop"
          THEN /\ hlsPc' = "raised"
               /\ IF { "pop", "timeout" } \subseteq DoneTasks
                  THEN /\ hlsExc' = "KeyError"
                       /\ UNCHANGED << popPc, timer >>
                  ELSE /\ hlsExc' = loopExc.kind
                       /\ \E c \in { "pop", "timeout" } \ DoneTasks :
                          /\ popPc' = IF c = "pop"
                                      THEN [ popPc EXCEPT ![wait_id] = "cancelled" ]
                                      ELSE popPc
                          /\ timer' = IF c = "timeout" THEN "cancelled" ELSE timer
               /\ UNCHANGED << tries, nFailed, backoffs, wait_ret >>
          ELSE /\ wait_ret' = (IF d = "timeout" THEN "None" ELSE popPc[wait_id])
               /\ AfterAttempt(IF d = "timeout" THEN "None" ELSE popPc[wait_id])
               /\ timer' = "none"
               /\ UNCHANGED << popPc, hlsExc >>
    /\ UNCHANGED << msg_id, socket, loopPc, last_heartbeat, now, msg_responses,
                    unanswered, wait_id, nReq >>
    /\ UNCHANGED << loopExc, recv_since >>
    /\ UNCHANGED notWS

\* get_hls_information, lines 273 and 287-289: the sleep is over; the loop
\* goes on with the next request or, after max_tries attempts, ends and
\* EmptyPlaylistException is raised
HlsBackoffDone ==
    /\ hlsPc = "backoff"
    /\ IF tries < max_tries
       THEN SendRequest
       ELSE /\ hlsPc' = "EmptyPlaylist"
            /\ UNCHANGED << msg_id, socket, unanswered, nReq >>
    /\ UNCHANGED << loopPc, last_heartbeat, now, msg_responses, popPc, tries,
                    wait_id, timer, nFailed, backoffs >>
    /\ UNCHANGED << loopExc, hlsExc, wait_ret, recv_since >>
    /\ UNCHANGED notWS

\* FC2WebSocket.__init__ and __aenter__, lines 225-254
WSInit ==
    /\ msg_id = 0
    /\ socket = << >>
    /\ loopPc = "recv"
    /\ last_heartbeat = 0
    /\ now = heartbeat_interval
    /\ msg_responses = { }
    /\ popPc = [ i \in Ids |-> "none" ]
    /\ unanswered = { }
    /\ hlsPc = "idle"
    /\ tries = 0
    /\ wait_id = 0
    /\ timer = "none"
    /\ loopExc = NoExc
    /\ hlsExc = "none"
    /\ wait_ret = "none"
    /\ recv_since = heartbeat_interval
    /\ nReq = 0
    /\ nFailed = 0
    /\ backoffs = << >>

WSNext ==
    \/ RecvResponse
    \/ RecvOther
    \/ RecvDisconnection
    \/ RecvTimeout
    \/ HeartbeatSent
    \/ Tick
    \/ HlsCall
    \/ HlsSendReturns
    \/ TimerFires
    \/ HlsWaitReturns
    \/ HlsBackoffDone

(***************************************************************************)
(* FC2LiveDL._get_hls_url, lines 754-805: the choice of the playlist.      *)
(***************************************************************************)
Qualities == { "150Kbps", "400Kbps", "1.2Mbps", "2Mbps", "3Mbps", "sound" }
Latencies == { "low", "high", "mid" }

\* lines 548-555
STREAM_QUALITY ==
    [ q \in Qualities |->
        CASE q = "150Kbps" -> 10
          [] q = "400Kbps" -> 20
          [] q = "1.2Mbps" -> 30
          [] q = "2Mbps" -> 40
          [] q = "3Mbps" -> 50
          [] q = "sound" -> 90 ]

\* lines 556-560
STREAM_LATENCY ==
    [ l \in Latencies |->
        CASE l = "low" -> 0
          [] l = "high" -> 1
          [] l = "mid" -> 2 ]

\* the keys _merge_playlists looks for, in its order (line 796)
PlaylistNames == << "playlists", "playlists_high_latency", "playlists_middle_latency" >>

\* the modes the entries of a payload are drawn from: two video qualities
\* and sound, at more than one latency
EntryModes ==
    { STREAM_QUALITY["2Mbps"] + STREAM_LATENCY["low"],
      STREAM_QUALITY["3Mbps"] + STREAM_LATENCY["low"],
      STREAM_QUALITY["3Mbps"] + STREAM_LATENCY["mid"],
      STREAM_QUALITY["sound"] + STREAM_LATENCY["low"],
      STREAM_QUALITY["sound"] + STREAM_LATENCY["mid"] }

\* the lists of at most n entries under the key name; the URL of an entry
\* tells where the server put it
ListsOf(name, n) ==
    UNION { { [ j \in 1 .. k |-> [url |-> << name, j >>, mode |-> ms[j]] ] :
                ms \in [ 1 .. k -> EntryModes ] } : k \in 0 .. n }

NoUrl == << "none", 0 >>

\* _get_mode, lines 801-805
get_mode == STREAM_QUALITY[quality] + STREAM_LATENCY[latency]

\* _merge_playlists, lines 794-799
RECURSIVE merge_from(_, _)
merge_from(info, i) ==
    IF i > Len(PlaylistNames) THEN << >>
    ELSE (IF PlaylistNames[i] \in info.keys THEN info.lists[PlaylistNames[i]] ELSE << >>)
             \o merge_from(info, i + 1)

merge_playlists(info) == merge_from(info, 1)

\* a sort key that takes the mode as it is
key_map_plain(mode) == mode
\* key_map, lines 782-786
key_map(mode) == IF mode >= 90 THEN mode - 90 ELSE mode

\* sorted(..., reverse=True, key=key_map), lines 788-792: by falling key,
\* entries of equal key in the order they had (the sort is stable)
RECURSIVE sort_playlists(_)
sort_playlists(merged) ==
    IF merged = << >> THEN << >>
    ELSE LET front == sort_playlists(SubSeq(merged, 1, Len(merged) - 1))
             e == merged[Len(merged)]
             k == Cardinality({ j \in 1 .. Len(front) :
                                   key_map(front[j].mode) >= key_map(e.mode) })
         IN  SubSeq(front, 1, k) \o << e >> \o SubSeq(front, k + 1, Len(front))

\* _format_mode, lines 807-812: both dict_search calls find their needle;
\* list.index raises ValueError otherwise
Decodable(mode) ==
    /\ \E l \in Latencies : STREAM_LATENCY[l] = mode % 10
    /\ \E q \in Qualities : STREAM_QUALITY[q] = (mode \div 10) * 10

\* a fallback that takes the last entry of the sorted list
WorstOf(sorted) == sorted[Len(sorted)]
\* line 768: playlist = sorted_playlists[0]
BestOf(sorted) == sorted[1]

\* _get_playlist_or_best, lines 761-779: the last entry of the wanted mode,
\* else the first entry; [exc, url]
get_playlist_or_best(sorted, mode) ==
    LET hits == { j \in 1 .. Len(sorted) : sorted[j].mode = mode }
    IN  IF hits # { }
        THEN [exc |-> "none",
              url |-> sorted[CHOOSE j \in hits : \A h \in hits : h <= j].url]
        ELSE IF sorted = << >>
        THEN [exc |-> "IndexError", url |-> NoUrl]
        ELSE IF ~Decodable(mode) \/ ~Decodable(BestOf(sorted).mode)
        THEN [exc |-> "ValueError", url |-> NoUrl]
        ELSE [exc |-> "none", url |-> BestOf(sorted).url]

\* line 756
SelMerge ==
    /\ selPc = "merge"
    /\ p_merged' = merge_playlists(hls_info)
    /\ selPc' = "sort"
    /\ UNCHANGED << quality, latency, hls_info, p_sorted, hls_url, selExc >>
    /\ UNCHANGED notSel

\* line 757
SelSort ==
    /\ selPc = "sort"
    /\ p_sorted' = sort_playlists(p_merged)
    /\ selPc' = "pick"
    /\ UNCHANGED << quality, latency, hls_info, p_merged, hls_url, selExc >>
    /\ UNCHANGED notSel

\* lines 755, 758-759
SelPick ==
    /\ selPc = "pick"
    /\ LET r == get_playlist_or_best(p_sorted, get_mode)
       IN  /\ hls_url' = r.url
           /\ selExc' = r.exc
    /\ selPc' = "done"
    /\ UNCHANGED << quality, latency, hls_info, p_merged, p_sorted >>
    /\ UNCHANGED notSel

\* the options and the payload drawn from their ranges; a key that is not
\* in the payload has no list
SelInit ==
    /\ quality \in Qualities
    /\ latency \in Latencies
    /\ \E keys \in SUBSET { PlaylistNames[i] : i \in 1 .. Len(PlaylistNames) } :
       \E l1 \in ListsOf(PlaylistNames[1], MaxEntries),
          l2 \in ListsOf(PlaylistNames[2], MaxLatencyEntries),
          l3 \in ListsOf(PlaylistNames[3], MaxLatencyEntries) :
          /\ PlaylistNames[1] \notin keys => l1 = << >>
          /\ PlaylistNames[2] \notin keys => l2 = << >>
          /\ PlaylistNames[3] \notin keys => l3 = << >>
          /\ hls_info = [keys |-> keys,
                         lists |-> [ n \in { PlaylistNames[i] : i \in 1 .. Len(PlaylistNames) } |->
                                       IF n = PlaylistNames[1] THEN l1
                                       ELSE IF n = PlaylistNames[2] THEN l2 ELSE l3 ]]
    /\ selPc = "merge"
    /\ p_merged = << >>
    /\ p_sorted = << >>
    /\ hls_url = NoUrl
    /\ selExc = "none"

\* the default options (lines 564-565) and a payload without a key
SelIdle ==
    /\ SelInit
    /\ quality = "3Mbps"
    /\ latency = "mid"
    /\ hls_info.keys = { }

SelNext ==
    \/ SelMerge
    \/ SelSort
    \/ SelPick

(***************************************************************************)
(* The specifications.  Each one runs one part of the program and leaves   *)
(* the state of the other parts as it is after construction; the last one  *)
(* runs download() together with the receive loop of its WebSocket.        *)
(***************************************************************************)
\* download() as constructed, with every option off
DLIdle ==
    /\ DLInit
    /\ ~write_chat /\ ~remux
    /\ ~wait_for_live /\ ~write_info_json /\ ~extract_audio /\ ~keep_intermediates

Init ==
    /\ HLSInit
    /\ DLIdle
    /\ WSInit
    /\ SelIdle

Next == HLSNext

\* the fragment pipeline
Spec == Init /\ [][Next]_vars

InitDL ==
    /\ DLInit
    /\ HLSInit /\ threads = 1
    /\ WSInit
    /\ SelIdle

NextDL == DLNext

\* download() from the creation of its tasks on
SpecDL == InitDL /\ [][NextDL]_vars

InitWS ==
    /\ WSInit
    /\ HLSInit /\ threads = 1
    /\ DLIdle
    /\ SelIdle

NextWS == WSNext

\* one WebSocket session with a call of get_hls_information
SpecWS == InitWS /\ [][NextWS]_vars

InitSel ==
    /\ SelInit
    /\ HLSInit /\ threads = 1
    /\ DLIdle
    /\ WSInit

NextSel == SelNext

\* one call of _get_hls_url
SpecSel == InitSel /\ [][NextSel]_vars

\* _main_loop ends as the task download() and wait_disconnection see it:
\* a control_disconnection frame, or the receive timeout once it has run out
SessionLoopEnds ==
    /\ \E e \in { Disconnection(code) : code \in DisconnectionCodes } \cup { TimeoutExc } :
          /\ e = TimeoutExc => ReceiveTimedOut(now, recv_since)
          /\ LoopEnds(e)
          /\ MainLoopEnds(e.kind)
    /\ UNCHANGED << hlsVars, selVars >>

\* the running _main_loop handles a frame other than a response
SessionFrame == mlState = "running" /\ RecvOther

\* the send_json of a heartbeat is over
SessionHeartbeatSent == mlState = "running" /\ HeartbeatSent

\* time goes by while _main_loop runs
SessionTick == mlState = "running" /\ Tick

InitSession ==
    /\ DLInit
    /\ WSInit
    /\ HLSInit /\ threads = 1
    /\ SelIdle

NextSession ==
    \/ DLSteps
    \/ SessionLoopEnds
    \/ SessionFrame
    \/ SessionHeartbeatSent
    \/ SessionTick

\* download() together with the receive loop of its WebSocket
SpecSession == InitSession /\ [][NextSession]_vars

(***************************************************************************)
(* Properties of the fragment pipeline.                                    *)
(***************************************************************************)
\* the steps by which the reader takes entries out of frag_data
ReaderStep == ReadYield \/ ReadRequeue \/ ReadWake

\* the sequences that have a payload somewhere between a worker and the file
InDataPath(k) ==
    \/ \E j \in 1 .. Len(frag_data) : frag_data[j].seq = k
    \/ \E j \in 1 .. Len(out) : out[j].seq = k
    \/ \E w \in Workers : wPc[w] = "put_data" /\ wItem[w].seq = k

\* the sequences that are still to be fetched
InUrlPath(k) ==
    \/ \E j \in 1 .. Len(frag_urls) : frag_urls[j].seq = k
    \/ \E w \in Workers : wPc[w] \in {"fetch", "put_retry"} /\ wItem[w].seq = k

C2_SequenceIntegrity ==
    (/\ readPc \in {"get", "sleep"}
     /\ fillExit # "cancelled"
     /\ ~ENABLED PipelineStep)
    => \A k \in 0 .. (frag_idx - 1) :
           /\ nDataPut[k] = 1
           /\ Cardinality({ j \in 1 .. Len(out) : out[j].seq = k }) = 1

\* C3: once the poller has ended on HTTP 403 or on the idle
\* timeout, the stream writer has ended or can still take entries out of
\* frag_data; it is never left waiting for a payload that cannot come.
C3_PollerExitEndsStream ==
    fillExit \in {"finished", "timeout"} => (readPc = "done" \/ ENABLED ReaderStep)

\* C4: neither queue ever holds more than its capacity.
C4_Backpressure ==
    /\ Len(frag_urls) <= QueueMaxSize
    /\ Len(frag_data) <= QueueMaxSize

\* both queues are full, the poller and a worker are suspended in
\* their puts, and the reader has just put a non-matching entry back
C4_Witness ==
    /\ Len(frag_urls) = QueueMaxSize
    /\ Len(frag_data) = QueueMaxSize
    /\ fillPc = "put"
    /\ \E w \in Workers : wPc[w] = "put_data"
    /\ readPc = "sleep"

\* C8, with the count of five failures: once the GET of a fragment has been answered five times
\* with a status > 299, no further GET is issued for it: it is not back in
\* frag_urls and its empty substitute is on its way to the reader.
C8_GiveUpAfterFive ==
    \A k \in Seqs :
        (nBad[k] >= MaxTries /\ download_task = "running")
        => (nGet[k] <= MaxTries /\ ~InUrlPath(k) /\ InDataPath(k))

\* C8, with the count the worker keeps: a fragment is given up when its GET has been answered six
\* times with a status > 299 (attempt counts 0 to 5); then and only then the
\* worker queues (sequence, b''), no further GET is issued for it, and the
\* reader yields the zero-length payload at that sequence's place and goes on
\* with the next sequence.
C8_GiveUpAfterSix ==
    \A k \in Seqs :
        /\ nGet[k] <= MaxTries + 1
        /\ nBad[k] <= nGet[k]
        /\ (nBad[k] = MaxTries + 1 /\ download_task = "running")
           => (~InUrlPath(k) /\ InDataPath(k))
        /\ nBad[k] = MaxTries + 1
           => /\ ~InUrlPath(k)
              /\ \A j \in 1 .. Len(frag_data) :
                     frag_data[j].seq = k => frag_data[j].frag = EmptyBytes
              /\ \A j \in 1 .. Len(out) :
                     out[j].seq = k => (out[j].frag = EmptyBytes /\ j = k + 1)
              /\ \A w \in Workers :
                     (wPc[w] = "put_data" /\ wItem[w].seq = k) => wFrag[w] = EmptyBytes
        /\ nBad[k] < MaxTries + 1
           => /\ \A j \in 1 .. Len(frag_data) :
                     frag_data[j].seq = k => frag_data[j].frag \in Bodies
              /\ \A j \in 1 .. Len(out) :
                     out[j].seq = k => out[j].frag \in Bodies

\* sequence 0 was given up after six failed GETs, its zero-length
\* payload was written, and the payload of sequence 1 was written after it
C8_Witness ==
    /\ nBad[0] = MaxTries + 1
    /\ Len(out) >= 2
    /\ out[1].frag = EmptyBytes
    /\ out[2].seq = 1

\* the entries of the URL queue and the ones the workers hold
UrlEntries ==
    { frag_urls[j] : j \in 1 .. Len(frag_urls) }
        \cup { wItem[w] : w \in { v \in Workers : wPc[v] \in {"fetch", "put_retry"} } }

\* sequence k has a zero-length payload somewhere on the data path
EmptyPayload(k) ==
    \/ \E j \in 1 .. Len(frag_data) :
            frag_data[j].seq = k /\ frag_data[j].frag = EmptyBytes
    \/ \E j \in 1 .. Len(out) : out[j].seq = k /\ out[j].frag = EmptyBytes
    \/ \E w \in Workers :
            wPc[w] = "put_data" /\ wItem[w].seq = k /\ wFrag[w] = EmptyBytes

\* worker w gets a response with a status above 299 in this step
BadResponse(w) == wPc[w] = "fetch" /\ nBad'[wItem[w].seq] = nBad[wItem[w].seq] + 1

\* C17: on a status above 299 the worker puts the fragment back on the URL
\* queue under the same sequence number with its attempt count raised by one
\* exactly when the attempt count is below 5, and otherwise puts
\* (sequence, empty) on the data queue; so an attempt count is never above 5
\* (it counts the bad responses of its fragment), and a zero-length
\* substitute exists only for a fragment whose attempt count reached 5.
C17_WorkerRetryRule ==
    /\ [](/\ \A e \in UrlEntries : e.tries \in 0 .. 5 /\ e.tries = nBad[e.seq]
          /\ \A k \in Seqs : EmptyPayload(k) => nBad[k] = 5 + 1)
    /\ [][\A w \in Workers : \A it \in { wItem[w] } : BadResponse(w) =>
            LET again == [seq |-> it.seq, url |-> it.url, tries |-> it.tries + 1]
            IN  IF it.tries < 5
                THEN /\ \/ /\ Len(frag_urls') = Len(frag_urls) + 1
                           /\ \E j \in 1 .. Len(frag_urls') : frag_urls'[j] = again
                           /\ wPc'[w] = "get"
                        \/ /\ frag_urls' = frag_urls
                           /\ wPc'[w] = "put_retry"
                           /\ wItem'[w] = again
                     /\ frag_data' = frag_data
                     /\ ~EmptyPayload(it.seq)'
                ELSE /\ frag_urls' = frag_urls
                     /\ wPc'[w] # "put_retry"
                     /\ EmptyPayload(it.seq)'
                     /\ ~InUrlPath(it.seq)'
       ]_vars

\* the fifth retry of sequence 0 waits on the URL queue while another
\* fragment is being fetched
C17_Witness ==
    /\ \E j \in 1 .. Len(frag_urls) :
            frag_urls[j].seq = 0 /\ frag_urls[j].tries = 5
    /\ nBad[0] = 5
    /\ \E w \in Workers : wPc[w] = "fetch" /\ wItem[w].seq # 0

\* the GET of worker w, or the read of its body, raises in this step
TransportError(w) == wPc[w] = "fetch" /\ nErr'[wItem[w].seq] = nErr[wItem[w].seq] + 1

\* C18: when the GET of a fragment raises, the worker puts the fragment on
\* no queue (neither a retry nor a payload) and goes on to take the next
\* entry; that sequence number is never again on the URL path nor on the data
\* path, and the reader never yields it nor any later sequence number.
C18_TransportErrorDrop ==
    /\ [](\A k \in Seqs : nErr[k] > 0 =>
            /\ ~InUrlPath(k)
            /\ ~InDataPath(k)
            /\ \A j \in 1 .. Len(out) : out[j].seq < k)
    /\ [][\A w \in Workers : TransportError(w) =>
            /\ frag_urls' = frag_urls
            /\ frag_data' = frag_data
            /\ wPc'[w] = "get"
            /\ \A v \in Workers \ {w} : wPc'[v] = wPc[v] /\ wItem'[v] = wItem[v]
       ]_vars

\* the GET of sequence 1 raised: sequence 0 was written, the payload of
\* sequence 2 was fetched later by a worker and waits on the data queue, and
\* the reader waits for sequence 1
C18_Witness ==
    /\ nErr[1] = 1
    /\ Len(out) = 1
    /\ index = 1
    /\ \E j \in 1 .. Len(frag_data) : frag_data[j].seq = 2
    /\ nGet[2] >= 1
    /\ download_task = "running"

\* the URLs of the entries e[from + 1 .. Len(e)]
UrlsFrom(e, from) == [ j \in 1 .. (Len(e) - from) |-> e[from + j].url ]

\* the entries of the playlist strictly after the position of URL last, all
\* of them when last is not in it
EntriesAfter(frags, last) ==
    LET at == { j \in 1 .. Len(frags) : frags[j] = last }
    IN  IF at = { } THEN frags
        ELSE SubSeq(frags, (CHOOSE j \in at : TRUE) + 1, Len(frags))

\* C19: the first poll takes every URL of the playlist as new and a later
\* poll exactly the entries strictly after the position of the last enqueued
\* URL (all of them when it is absent); the new URLs are put on the URL queue
\* in playlist order (the ones a full queue holds back wait in that order)
\* with attempt count 0 and the sequence numbers 0, 1, 2, ... without a gap;
\* with a playlist that is a forward-sliding window over distinct URLs no URL
\* is enqueued twice.
C19_PollerSequenceAssignment ==
    /\ [](/\ frag_idx = Len(enqueued)
          /\ \A j \in 1 .. Len(enqueued) :
                enqueued[j].seq = j - 1 /\ enqueued[j].tries = 0
          /\ \A i, j \in 1 .. Len(enqueued) :
                i < j => enqueued[i].url # enqueued[j].url)
    /\ [][/\ FillPoll =>
              /\ UrlsFrom(enqueued', Len(enqueued)) \o fillPending'
                    = EntriesAfter(Playlist, last_fragment)
              /\ (enqueued = << >> =>
                    UrlsFrom(enqueued', 0) \o fillPending' = Playlist)
          /\ FillPutResume =>
              (UrlsFrom(enqueued', Len(enqueued)) \o fillPending' = fillPending)
          /\ (~FillPoll /\ ~FillPutResume) => (enqueued' = enqueued)
       ]_vars

\* the window slid past the last enqueued URL while the poller waited on the
\* full URL queue: the next poll took the whole playlist, and an earlier poll
\* took only the entry after the last enqueued URL
C19_Witness ==
    /\ Len(enqueued) >= 4
    /\ \E j \in 2 .. Len(enqueued) : enqueued[j].url > enqueued[j - 1].url + 1
    /\ enqueued[2].url = 2
    /\ fillPc = "poll"

\* a worker took sequence k off the URL queue and was cancelled before the
\* fragment reached a queue again: in its GET, or in a put that waited on a
\* full queue
Abandoned(k) ==
    /\ nGet[k] >= 1
    /\ nErr[k] = 0
    /\ ~InUrlPath(k)
    /\ ~InDataPath(k)

\* C20: once the download task has ended, which it does in the step in
\* which the poller returns (idle timeout, 403, its own exception) and, after
\* the reader is cancelled or the downloader closed, before read() or
\* __aexit__ go on, the poller polls no more and every worker is cancelled:
\* no entry is taken off the URL queue, no GET is answered and nothing is
\* put on either queue by a worker, whatever the workers were waiting for.
C20_WorkersEndWithPoller ==
    /\ [](download_task = "done" =>
            fillPc = "done" /\ \A w \in Workers : wPc[w] = "cancelled")
    /\ [](readPc = "done" => download_task = "done")
    /\ [][download_task = "done" =>
            /\ UNCHANGED << frag_urls, wPc, wItem, wFrag, nGet, nBad, nErr,
                            nDataPut, enqueued, fillPc, frag_idx, last_fragment >>
            /\ \/ frag_data' = frag_data
               \/ ReaderStep
       ]_vars

\* the poller gave up after the idle timeout while two entries waited on the
\* URL queue and a worker held a fragment, the data queue being full
C20_Witness ==
    /\ download_task = "done"
    /\ fillExit = "timeout"
    /\ frag_urls # << >>
    /\ QueueFull(frag_data)
    /\ \E k \in Seqs : Abandoned(k)
    /\ \A w \in Workers : wPc[w] = "cancelled"

\* C27: the poller ends by idle timeout only in a poll that found no new
\* fragment, IdleTimeout seconds or more after the last poll that found one;
\* it does not end by idle timeout in the iteration in which it found and
\* enqueued new fragments, however long a put waited on the full URL queue.
C27_IdleTimeoutOnlyWhenIdle ==
    [][(fillExit # "timeout" /\ fillExit' = "timeout") =>
          /\ fillPc = "poll"
          /\ enqueued' = enqueued
          /\ EntriesAfter(Playlist, last_fragment) = << >>
      ]_vars

\* C28: a worker that puts a failed fragment back on the URL queue is not
\* blocked for ever: the pipeline is never in a state where the URL queue is
\* full, every worker is suspended in the put of a retry and the poller is
\* suspended in the put of a new fragment, with no task left to take an
\* entry off the URL queue.
C28_RetryNeverDeadlocks ==
    ~(/\ download_task = "running"
      /\ QueueFull(frag_urls)
      /\ \A w \in Workers : wPc[w] = "put_retry"
      /\ fillPc = "put")

\* C29: with more than one worker and no transport error, the payload of
\* the sequence number the reader expects gets onto the data queue and is
\* yielded: the pipeline is never in a state where the data queue is full of
\* later sequence numbers, the reader takes out and puts back an entry that
\* does not match, and the worker that holds the expected payload is
\* suspended in its put.
C29_HeadOfLineProgress ==
    (threads > 1 /\ ErrTotal = 0 /\ download_task = "running") =>
        ~(/\ QueueFull(frag_data)
          /\ \A j \in 1 .. Len(frag_data) : frag_data[j].seq > index
          /\ readPc \in { "get", "sleep" }
          /\ \E w \in Workers : wPc[w] = "put_data" /\ wItem[w].seq = index)

(***************************************************************************)
(* Properties of the choice of the playlist.                               *)
(***************************************************************************)
\* the entries of the payload, whatever list they are in
AllEntries ==
    { hls_info.lists[n][j] : << n, j >> \in
        { x \in hls_info.keys \X (1 .. (MaxEntries + MaxLatencyEntries)) :
            x[2] <= Len(hls_info.lists[x[1]]) } }

\* mode a ranks above mode b: video above audio, and of two video modes
\* the higher one
Outranks(a, b) == (a < 90 /\ b >= 90) \/ (a < 90 /\ b < 90 /\ a > b)

\* C15: the merged list holds the entries of all three lists and nothing
\* else; for a payload with at least one entry _get_hls_url returns a URL:
\* if an entry has the wanted mode, the URL of an entry of exactly that
\* mode, else the URL of the first entry of the sorted list, which no entry
\* of the payload outranks
C15_ModeSelection ==
    /\ selPc # "merge"
          => /\ Len(p_merged) = Cardinality(AllEntries)
             /\ { p_merged[j] : j \in 1 .. Len(p_merged) } = AllEntries
    /\ (selPc = "done" /\ AllEntries # { })
          => /\ selExc = "none"
             /\ IF \E e \in AllEntries : e.mode = get_mode
                THEN \E e \in AllEntries : e.url = hls_url /\ e.mode = get_mode
                ELSE /\ hls_url = p_sorted[1].url
                     /\ \E e \in AllEntries :
                           /\ e.url = hls_url
                           /\ \A o \in AllEntries : ~Outranks(o.mode, e.mode)

\* 3Mbps at low latency (mode 50) is asked for, the payload offers modes 52
\* and 40: the entry of mode 52 is chosen
C15_Witness ==
    /\ selPc = "done"
    /\ quality = "3Mbps" /\ latency = "low"
    /\ Len(p_merged) = 2
    /\ p_merged[1].mode = 52 /\ p_merged[2].mode = 40
    /\ hls_url = p_merged[1].url

\* C16: the sorted list is the merged list in another order, in which every
\* audio entry (mode >= 90) comes after every video entry and a video entry
\* of a higher mode comes before one of a lower mode
C16_SortRanking ==
    selPc \in { "pick", "done" }
        => /\ Len(p_sorted) = Len(p_merged)
           /\ { p_sorted[j] : j \in 1 .. Len(p_sorted) }
                 = { p_merged[j] : j \in 1 .. Len(p_merged) }
           /\ \A i, j \in 1 .. Len(p_sorted) :
                 /\ (p_sorted[i].mode >= 90 /\ p_sorted[j].mode < 90) => j < i
                 /\ (/\ p_sorted[i].mode < 90
                     /\ p_sorted[j].mode < 90
                     /\ p_sorted[i].mode > p_sorted[j].mode) => i < j

\* an audio entry came first in the payload, before two video entries of
\* rising mode, and the sort has put it last
C16_Witness ==
    /\ selPc = "pick"
    /\ Len(p_merged) >= 3
    /\ p_merged[1].mode >= 90
    /\ p_merged[2].mode < p_merged[3].mode
    /\ p_merged[3].mode < 90
    /\ p_sorted[Len(p_sorted)] = p_merged[1]

(***************************************************************************)
(* Properties of download().                                               *)
(***************************************************************************)
\* download() has returned or has been left by an exception
DlOver == dlPc \in { "done", "raised" }

\* no task of the session is still running
NoTaskRunning == \A t \in Tasks : tState[t] = "none" \/ Finished(tState, t)

\* C5: when _main_loop ends with a ServerDisconnection of any kind during
\* the recording, wait_disconnection raises it, the chat writer does not
\* fail by itself, the user does not interrupt and ffmpeg can be started,
\* download() returns normally: nothing is propagated, no writer is left running, and the
\* stream is remuxed if the stream file exists and remux is set
C5_DisconnectionEndsCleanly ==
    (/\ DlOver
     /\ mlExc \in Disconnections
     /\ tState[T1] = "failed"
     /\ tState[T3] # "failed"
     /\ ~interrupted
     /\ dlExc # "FileNotFoundError")
        => /\ dlPc = "done"
           /\ dlExc = "none"
           /\ Finished(tState, T2)
           /\ write_chat => Finished(tState, T3)
           /\ (remux /\ fileExists) => remuxed

\* C6: once download() is over, whether it returned or was left by an
\* exception or a cancellation, none of T1, T2, T3 is still running
C6_NoTaskLeftRunning == DlOver => NoTaskRunning

\* C7: after a user interrupt, and if ffmpeg can be started, download()
\* returns normally: the interrupt
\* is logged and not propagated, every task was cancelled and has ended,
\* and the stream is remuxed if the stream file exists and remux is set
C7_InterruptHandled ==
    (DlOver /\ interrupted /\ dlExc # "FileNotFoundError")
        => /\ dlPc = "done"
           /\ dlExc = "none"
           /\ "Interrupted by user" \in logged
           /\ NoTaskRunning
           /\ (remux /\ fileExists) => remuxed

\* x is among what download() has done
Has(x) == \E j \in 1 .. Len(events) : events[j] = x

\* the place of x in what download() has done, 0 if it has not
Pos(x) == IF Has(x) THEN CHOOSE j \in 1 .. Len(events) : events[j] = x ELSE 0

\* C12: when the first metadata fetch reports is_publish = 0 and
\* wait_for_live is not set, download() is left by NotOnlineException, and
\* then no output path has been prepared, no file has been created, the
\* control server has not been asked, the WebSocket has not been opened, no
\* task has been created and nothing has been remuxed
C12_OfflineNoWait ==
    /\ (is_publish = 0 /\ ~wait_for_live)
          => (dlPc = "raised" /\ dlExc = "NotOnlineException")
    /\ dlExc = "NotOnlineException"
          => /\ events = << >>
             /\ ~fileExists /\ ~muxedExists
             /\ ~wsOpened /\ ~wsClosed /\ mlState = "none"
             /\ \A t \in Tasks : tState[t] = "none"
             /\ ~remuxed

\* the session has failed on an offline channel
C12_Witness ==
    /\ is_publish = 0
    /\ ~wait_for_live
    /\ dlPc = "raised"
    /\ dlExc = "NotOnlineException"

\* C13: the muxer is started only with remux set and after the stream file
\* was opened; the stream file is removed only with remux set,
\* keep_intermediates not set and the muxed file in existence, only after
\* the muxer run has ended and, with extract_audio, after the audio run has
\* ended; and once the stream file exists it stays unless it was removed so
\* (never with remux off or keep_intermediates on)
C13_PostProcessingSafety ==
    /\ Has("muxer") => (remux /\ Has("open_stream") /\ Pos("open_stream") < Pos("muxer"))
    /\ Has("audio") => (extract_audio /\ Has("muxer_done"))
    /\ Has("remove_stream")
          => /\ remux /\ ~keep_intermediates /\ muxedExists
             /\ Has("muxer_done") /\ Pos("muxer_done") < Pos("remove_stream")
             /\ extract_audio
                   => (Has("audio_done") /\ Pos("audio_done") < Pos("remove_stream"))
    /\ (Has("open_stream") /\ ~Has("remove_stream")) => fileExists
    /\ (~remux \/ keep_intermediates) => ~Has("remove_stream")

\* the stream file was removed after the muxer run and the audio run
C13_Witness ==
    /\ dlPc = "done"
    /\ extract_audio
    /\ Has("remove_stream")
    /\ ~fileExists

\* C14: once the WebSocket was opened and download() has left the
\* `async with` block (it is in the finally block or beyond), close() was
\* called on the WebSocket and the receive loop has ended or was cancelled
C14_SocketClosedOnExit ==
    /\ (wsOpened /\ dlPc \in { "await", "remux", "audio", "done", "raised" })
          => (wsClosed /\ mlState \in { "cancel_req", "cancelled", "failed" })
    /\ wsClosed => wsOpened

\* get_hls_information raised EmptyPlaylistException with the receive loop
\* running: the WebSocket was closed and the loop cancelled
C14_Witness ==
    /\ dlPc = "raised"
    /\ dlExc = "EmptyPlaylistException"
    /\ wsClosed
    /\ mlState = "cancelled"

(***************************************************************************)
(* Properties of the WebSocket.                                            *)
(***************************************************************************)
\* C9: get_hls_information sends at most max_tries requests; the failed
\* attempt n (n = 0, 1, ...) is followed by a wait of 2^n seconds; once
\* max_tries attempts have failed the call ends with EmptyPlaylistException;
\* and it ends with EmptyPlaylistException only after max_tries attempts
\* have failed
C9_HlsRetryContract ==
    /\ nReq <= max_tries
    /\ Len(backoffs) = nFailed
    /\ \A n \in 1 .. Len(backoffs) : backoffs[n] = Pow2(n - 1)
    /\ (nFailed = max_tries /\ hlsPc \in { "returned", "EmptyPlaylist", "raised" })
           => hlsPc = "EmptyPlaylist"
    /\ hlsPc = "EmptyPlaylist" => nFailed = max_tries

\* C10: the first frame written to the socket has id 1 and every frame has
\* the id of its predecessor plus an allocation: the ids on the socket are
\* strictly increasing, none is used twice, and they are written in the
\* order in which they were allocated
C10_MessageIdsIncrease ==
    /\ \A j \in 1 .. Len(socket) : socket[j].id = j
    /\ msg_id = Len(socket)

\* the positions of the heartbeat frames on the socket
HeartbeatFrames(sock) == { j \in 1 .. Len(sock) : sock[j].name = "heartbeat" }

\* a step in which _main_loop has handled an inbound frame
FrameHandled == RecvResponse \/ RecvOther

\* C11: any two heartbeat frames were sent at least heartbeat_interval
\* apart; a heartbeat is sent only in a step in which _main_loop has handled
\* an inbound frame, and only if no heartbeat was sent before (the first
\* handled frame always sends one) or at least heartbeat_interval has gone
\* by since the previous heartbeat send
C11_HeartbeatCadence ==
    /\ [](\A j, k \in HeartbeatFrames(socket) :
             j < k => socket[k].at - socket[j].at >= heartbeat_interval)
    /\ [][ /\ HeartbeatFrames(socket') # HeartbeatFrames(socket)
              => /\ FrameHandled
                 /\ \A j \in HeartbeatFrames(socket) :
                        now - socket[j].at >= heartbeat_interval
           /\ (FrameHandled /\ HeartbeatFrames(socket) = { })
              => HeartbeatFrames(socket') # { } ]_vars

\* two heartbeats are on the socket, and a frame has been handled since
\* without a heartbeat because the interval has not gone by
C11_Witness ==
    /\ Cardinality(HeartbeatFrames(socket)) >= 2
    /\ loopPc = "recv"
    /\ now - last_heartbeat < heartbeat_interval
    /\ socket # << >>
    /\ socket[Len(socket)].name = "get_hls_information"
    /\ unanswered = { }

\* the map holds a value under id i
Published(m, i) == \E r \in m : r.id = i

\* C21: pop(id) returns the value the receive loop has put under that id and
\* no other, and it returns once the id is published, whether the put came
\* before or after the waiter began to wait and without a later put: no
\* waiter is left waiting while the map holds its id, and a waiter that
\* returns has been given the value held or just put under its id.
C21_ResponseRendezvous ==
    /\ [](\A i \in Ids : popPc[i] = "waiting" => ~Published(msg_responses, i))
    /\ [][\A i \in Ids :
            (popPc[i] = "waiting" /\ popPc'[i] \in { "full", "empty" }) =>
                \/ \E r \in msg_responses :
                        r.id = i /\ r.playlists = (popPc'[i] = "full")
                \/ i \in unanswered \ unanswered'
       ]_vars

LastRequestId(sock) ==
    LET reqs == { j \in 1 .. Len(sock) : sock[j].name = "get_hls_information" }
    IN  sock[CHOOSE j \in reqs : \A k \in reqs : k <= j].id

\* C25: the id _send_message returns, on which _send_message_and_wait then
\* waits, is the id of the frame that call wrote to the socket, also when the
\* heartbeat of the receive loop is sent while the call is suspended in
\* send_json.
C25_ReturnedIdIsSentId ==
    hlsPc = "wait" => wait_id = LastRequestId(socket)

\* C26: when an attempt of get_hls_information, the first or any later one
\* up to the fifth, is given a response with 'playlists' before its timer
\* ends, the call returns the arguments of that response and is not left by
\* EmptyPlaylistException.
C26_PlaylistResponseReturned ==
    wait_ret = "full" => (hlsPc = "returned" /\ hlsExc = "none")

\* a heartbeat was allocated and written while get_hls_information was
\* suspended in the send of a request, and both senders have sent since
C10_Witness ==
    /\ Len(socket) >= 4
    /\ hlsPc = "send"
    /\ loopPc = "heartbeat"
    /\ \E j \in 1 .. (Len(socket) - 1) :
          socket[j].name = "heartbeat" /\ socket[j + 1].name = "get_hls_information"
    /\ \E j \in 1 .. (Len(socket) - 1) :
          socket[j].name = "get_hls_information" /\ socket[j + 1].name = "heartbeat"

(***************************************************************************)
(* Properties of download() together with the receive loop.                *)
(***************************************************************************)
\* C23: a control_disconnection frame ends the receive loop with the
\* exception chosen by arguments.code: 4101 PaidProgramDisconnection, 4507
\* LoginRequiredError, 4512 MultipleConnectionError, any other code
\* ServerDisconnection with that code; the loop then handles no frame and
\* sends no heartbeat any more, and a wait_disconnection() that awaits the
\* loop fails with the exception of that kind.
C23_DisconnectionKinds ==
    /\ [][(loopPc = "recv" /\ loopPc' = "failed" /\ loopExc'.kind # "TimeoutError") =>
            /\ loopExc'.code = 4101 => loopExc'.kind = "PaidProgramDisconnection"
            /\ loopExc'.code = 4507 => loopExc'.kind = "LoginRequiredError"
            /\ loopExc'.code = 4512 => loopExc'.kind = "MultipleConnectionError"
            /\ loopExc'.code \notin { 4101, 4507, 4512 } =>
                  loopExc'.kind = "ServerDisconnection"
            /\ loopExc'.code \in DisconnectionCodes
            /\ socket' = socket
            /\ msg_responses' = msg_responses ]_vars
    /\ [][loopPc = "failed" =>
            /\ loopPc' = "failed"
            /\ loopExc' = loopExc
            /\ HeartbeatFrames(socket') = HeartbeatFrames(socket)
            /\ last_heartbeat' = last_heartbeat
            /\ msg_responses' = msg_responses ]_vars
    /\ []((loopPc = "failed" /\ tState[T1] = "running") =>
            ENABLED WaitDisconnectionEnds)
    /\ [][(loopPc = "failed" /\ tState[T1] = "running" /\ WaitDisconnectionEnds) =>
            (tState'[T1] = "failed" /\ mlExc' = loopExc.kind) ]_vars
    /\ [](tState[T1] = "failed" =>
            (loopPc = "failed" /\ TaskException(T1) = loopExc.kind))

\* the loop sent a heartbeat, then the server closed the channel with code
\* 4507, and wait_disconnection was left by LoginRequiredError
C23_Witness ==
    /\ tState[T1] = "failed"
    /\ TaskException(T1) = "LoginRequiredError"
    /\ loopExc.code = 4507
    /\ HeartbeatFrames(socket) # { }
    /\ logged = { "Disconnected" }

\* C24: when no frame arrives within heartbeat_interval (30 s) of the moment
\* the receive loop starts to wait, the loop is left by TimeoutError and no
\* heartbeat was sent while it waited; a wait_disconnection() that awaits
\* the loop fails with that exception, and download(), on the return of
\* asyncio.wait, cancels the stream task and the chat task that still run.
C24_ReceiveTimeout ==
    /\ [][(loopPc = "recv" /\ loopPc' = "failed" /\ loopExc'.kind = "TimeoutError") =>
            /\ now - recv_since >= 30
            /\ socket' = socket
            /\ \A j \in 1 .. Len(socket) :
                  socket[j].name = "heartbeat" => socket[j].at <= recv_since ]_vars
    /\ []((mlState = "running" /\ loopPc = "recv" /\ now - recv_since >= 30) =>
            (ENABLED SessionLoopEnds /\ ~ENABLED SessionTick))
    /\ [][(loopExc = TimeoutExc /\ tState[T1] = "running" /\ WaitDisconnectionEnds) =>
            (tState'[T1] = "failed" /\ TaskException(T1)' = "TimeoutError") ]_vars
    /\ [][(tState[T1] = "failed" /\ loopExc = TimeoutExc /\ DlTasksExited) =>
            /\ dlPc' # "wait"
            /\ \A t \in { T2, T3 } :
                  tState[t] = "running" =>
                      (t \in cancelAsked' /\ tState'[t] # "running") ]_vars

\* the receive loop timed out after a heartbeat; wait_disconnection failed
\* with TimeoutError and both writers, which were running, were cancelled:
\* the stream task caught the CancelledError and returned, the chat task
\* ended cancelled
C24_Witness ==
    /\ loopExc = TimeoutExc
    /\ HeartbeatFrames(socket) # { }
    /\ tState[T1] = "failed"
    /\ exitedSet = { T1 }
    /\ { T2, T3 } \subseteq cancelAsked
    /\ tState[T2] = "done" /\ tState[T3] = "cancelled"

====
